---- MODULE Spec2Model ----
(***************************************************************************)
(* task-assist: the status model, the Store and the scheduling engine.     *)
(*                                                                         *)
(* One Work with its Tasks in the Store (db.py, core/storage.py), the      *)
(* remote task list (core/tasks_provider.py), and the engine operations    *)
(* of core/scheduling.py and core/due_dates.py.  Times are whole seconds.  *)
(***************************************************************************)
EXTENDS Integers, Sequences, FiniteSets, TLC

\* ------------------------------------------------------------------ bounds
\* Remote entries ever created, and edits made by the user, in one behaviour
MaxRemote == 1
MaxEdits == 1

\* --------------------------------------------------------------- constants
Hour == 3600
Day == 24 * Hour
DefaultDueHours == 8
\* resolve_conflict: dues less than this many seconds apart are the same
Tolerance == 60
SnoozeThreshold == 3

\* The Work of the model has three Tasks, created in the order 1, 2, 3.
Tasks == 1 .. 3
\* get_task_by_id returns None: no such task
NoTask == 0
TaskIds == Tasks \cup {NoTask}
\* Task.calendar_event_id is null
NoId == 0
\* Task.due_date is null
NoDue == -1
\* The due dates a user picks: half a minute after the default due date of
\* a task scheduled at time 0, and two days after time 0
NewDues == {Day + DefaultDueHours * Hour + 30, 2 * Day}
Nows == {0}
SnoozeDays == {1}
\* The day counts of the snoozes of SpecSnooze
SnoozeSpans == {1, 2}

TaskStatuses == {"Pending", "Published", "Tracked", "Completed"}
WorkStatuses == {"Draft", "Published", "Completed"}

\* ------------------------------------------------------------ status model

\* A mutation of the task table: the advance Pending -> Tracked is accepted
task_can_transition_advance(from_status, to_status) ==
  \/ from_status = to_status
  \/ to_status = "Completed"
  \/ from_status = "Completed" /\ to_status = "Published"
  \/ from_status = "Pending" /\ to_status \in {"Published", "Tracked"}
  \/ from_status = "Published" /\ to_status = "Tracked"
  \/ from_status = "Tracked" /\ to_status = "Published"

\* core/task.py can_transition
task_can_transition(from_status, to_status) ==
  \/ from_status = to_status
  \/ to_status = "Completed"
  \/ from_status = "Completed" /\ to_status = "Published"
  \/ from_status = "Pending" /\ to_status = "Published"
  \/ from_status = "Published" /\ to_status = "Tracked"
  \/ from_status = "Tracked" /\ to_status = "Published"

\* A mutation of the work table: "any status -> Draft" read as "any status
\* -> Completed"
work_can_transition_complete(from_status, to_status) ==
  \/ from_status = to_status
  \/ from_status = "Draft" /\ to_status \in {"Published", "Completed"}
  \/ from_status = "Published" /\ to_status \in {"Completed", "Draft"}
  \/ from_status = "Completed" /\ to_status = "Draft"

\* core/work.py can_transition
work_can_transition(from_status, to_status) ==
  \/ from_status = to_status
  \/ from_status = "Draft" /\ to_status = "Published"
  \/ from_status = "Published" /\ to_status \in {"Completed", "Draft"}
  \/ from_status = "Completed" /\ to_status = "Draft"

\* core/task.py TaskStatus.to_google_tasks
to_google_tasks(s) == IF s = "Completed" THEN "completed" ELSE "needsAction"

\* ------------------------------------------------------------------- state

VARIABLES
  workStatus,         \* Work.status
  status,             \* Task.status, per task
  due_date,           \* Task.due_date, per task (NoDue: null)
  calendar_event_id,  \* Task.calendar_event_id, per task (NoId: null)
  snooze_count,       \* Task.snooze_count, per task
  remote,             \* the remote task list: the entries in creation order
  edits,              \* number of user edits made so far
  chk                 \* per specification: the inputs and answers of the
                      \* function evaluated, or the calls under way

vars == <<workStatus, status, due_date, calendar_event_id, snooze_count,
          remote, edits, chk>>
store == <<workStatus, status, due_date, calendar_event_id, snooze_count>>

NoChk == [tfrom |-> "Pending", tto |-> "Pending", wfrom |-> "Draft",
          wto |-> "Draft", done |-> FALSE, tres |-> FALSE, wres |-> FALSE]

\* The Store and the remote list as one value, for the operations below.
Cur ==
  [w |-> workStatus, st |-> status, du |-> due_date,
   cal |-> calendar_event_id, snz |-> snooze_count, rem |-> remote]

\* What an operation gives back: the state afterwards, the value returned,
\* the task advanced to Tracked (NoTask: none), and the remote calls and the
\* notifications in the order made.
Result(S, ret, nxt, calls, notes) ==
  [S |-> S, ret |-> ret, next |-> nxt, calls |-> calls, notes |-> notes]

\* A Draft Work with its Tasks as created: Pending, without a due date, not
\* mirrored, never snoozed.  The remote list is empty.
Init ==
  /\ workStatus = "Draft"
  /\ status = [t \in Tasks |-> "Pending"]
  /\ due_date = [t \in Tasks |-> NoDue]
  /\ calendar_event_id = [t \in Tasks |-> NoId]
  /\ snooze_count = [t \in Tasks |-> 0]
  /\ remote = <<>>
  /\ edits = 0
  /\ chk = NoChk

\* ------------------------------------------------------------------- store

\* A mutation of the sort key: a task without a due date sorts after every
\* dated one
DueKey_nulls_last(d) == IF d = NoDue THEN 4 * Day ELSE d

\* nullsfirst(): a task without a due date sorts before every dated one
DueKey(d) == IF d = NoDue THEN -1 ELSE d

\* ORDER BY due_date ASC NULLS FIRST, created_at ASC (tasks are created in
\* id order)
OrderedBefore(du, t, u) ==
  \/ DueKey(du[t]) < DueKey(du[u])
  \/ DueKey(du[t]) = DueKey(du[u]) /\ t < u

RECURSIVE SortTasks(_, _)
SortTasks(S, du) ==
  IF S = {} THEN <<>>
  ELSE LET m == CHOOSE t \in S : \A u \in S : u = t \/ OrderedBefore(du, t, u)
       IN <<m>> \o SortTasks(S \ {m}, du)

\* core/storage.py list_tasks(work_id, exclude_completed=True)
list_tasks(st, du) == SortTasks({t \in Tasks : st[t] # "Completed"}, du)

\* db.py publish_work: the Work and every Task of it become Published
publish_work(st) == [w |-> "Published", st |-> [t \in Tasks |-> "Published"]]

\* A mutation of complete_work: the Work alone becomes Completed
complete_work_no_cascade(st) == [w |-> "Completed", st |-> st]

\* db.py complete_work: the Work and every Task of it become Completed
complete_work(st) == [w |-> "Completed", st |-> [t \in Tasks |-> "Completed"]]

\* core/storage.py update_work_status, on (work status, task statuses)
update_work_status(w, st, new_status) ==
  IF new_status = "Published" THEN publish_work(st)
  ELSE IF new_status = "Completed" THEN complete_work(st)
  ELSE [w |-> new_status, st |-> st]

\* ---------------------------------------------------------- remote provider
\* A remote id is the position of the entry in the list; a deleted entry
\* leaves its position empty.

NoEntry == [exists |-> FALSE, status |-> "needsAction", due |-> NoDue]

Known(rem, id) == id \in 1 .. Len(rem) /\ rem[id].exists

\* GoogleTasksProvider.get_task: the entry, or None when the entry is gone
\* or the call fails (ok = FALSE); TRUE stands for a returned entry
get_task(rem, id, ok) == ok /\ Known(rem, id)

\* GoogleTasksProvider.update_task (fetch, apply, update in one try block):
\* the remote list afterwards, and whether a resource was returned.
\* new_due = NoDue: due=None; new_status = "": status=None
update_task(rem, id, new_due, new_status, ok) ==
  IF ok /\ Known(rem, id)
  THEN [ok |-> TRUE,
        rem |-> [rem EXCEPT ![id] =
                   [exists |-> TRUE,
                    status |-> IF new_status = "" THEN @.status
                               ELSE to_google_tasks(new_status),
                    due    |-> IF new_due = NoDue THEN @.due ELSE new_due]]]
  ELSE [ok |-> FALSE, rem |-> rem]

\* GoogleTasksProvider.complete_task
complete_task(rem, id, ok) == update_task(rem, id, NoDue, "Completed", ok)

\* GoogleTasksProvider.delete_task
delete_task(rem, id, ok) ==
  IF ok /\ Known(rem, id)
  THEN [ok |-> TRUE,
        rem |-> [rem EXCEPT ![id] = NoEntry]]
  ELSE [ok |-> FALSE, rem |-> rem]

\* GoogleTasksProvider.create_task: a new entry with a new id, or None when
\* every attempt failed (ok = FALSE)
create_task(rem, due, st, ok) ==
  IF ok
  THEN [ok |-> TRUE, id |-> Len(rem) + 1,
        rem |-> Append(rem, [exists |-> TRUE, status |-> to_google_tasks(st),
                             due |-> due])]
  ELSE [ok |-> FALSE, id |-> NoId, rem |-> rem]

\* ------------------------------------------------------- scheduling engine

\* ensure_task_scheduled line 63: task.due_date, or utcnow() + 1 day 8 hours
default_due(d, now) ==
  IF d # NoDue THEN d ELSE now + Day + DefaultDueHours * Hour

\* core/scheduling.py ensure_task_scheduled(task_id)
ensure_task_scheduled(S, t, okG, okC, now) ==
  IF t = NoTask THEN Result(S, FALSE, NoTask, <<>>, <<>>)
  ELSE IF S.cal[t] # NoId /\ get_task(S.rem, S.cal[t], okG)
  THEN Result(S, TRUE, NoTask, <<"get">>, <<>>)
  ELSE LET pre == IF S.cal[t] # NoId THEN <<"get">> ELSE <<>>
           c   == create_task(S.rem, default_due(S.du[t], now), S.st[t], okC)
       IN IF ~c.ok
          THEN Result(S, FALSE, NoTask, pre \o <<"create">>, <<>>)
          ELSE Result([S EXCEPT !.cal[t] = c.id, !.rem = c.rem], TRUE, NoTask,
                      pre \o <<"create">>, <<"event_created">>)

\* A mutation of complete_task_and_schedule_next: the open tasks are listed
\* before the task is stored as Completed
complete_task_and_schedule_next_stale_list(S, t, okU, okG, okC, now) ==
  IF t = NoTask THEN Result(S, FALSE, NoTask, <<>>, <<>>)
  ELSE LET mid   == S.cal[t]
           u     == IF mid # NoId THEN complete_task(S.rem, mid, okU)
                    ELSE [ok |-> FALSE, rem |-> S.rem]
           calls == IF mid # NoId THEN <<"update">> ELSE <<>>
           S1    == [S EXCEPT !.st[t] = "Completed", !.rem = u.rem]
           all_tasks == list_tasks(S.st, S.du)
       IN IF all_tasks # <<>>
          THEN LET next_task == Head(all_tasks)
                   S2 == [S1 EXCEPT !.st[next_task] = "Tracked"]
                   r  == ensure_task_scheduled(S2, next_task, okG, okC, now)
               IN Result(r.S, TRUE, next_task, calls \o r.calls,
                         <<"task_completed">> \o r.notes)
          ELSE LET w == update_work_status(S1.w, S1.st, "Completed")
               IN Result([S1 EXCEPT !.w = w.w, !.st = w.st], TRUE, NoTask,
                         calls, <<"task_completed", "work_completed">>)

\* A mutation of complete_task_and_schedule_next: the next task is set to
\* Tracked and ensure_task_scheduled is not called on it
complete_task_and_schedule_next_no_ensure(S, t, okU, okG, okC, now) ==
  IF t = NoTask THEN Result(S, FALSE, NoTask, <<>>, <<>>)
  ELSE LET mid   == S.cal[t]
           u     == IF mid # NoId THEN complete_task(S.rem, mid, okU)
                    ELSE [ok |-> FALSE, rem |-> S.rem]
           calls == IF mid # NoId THEN <<"update">> ELSE <<>>
           S1    == [S EXCEPT !.st[t] = "Completed", !.rem = u.rem]
           all_tasks == list_tasks(S1.st, S1.du)
       IN IF all_tasks # <<>>
          THEN LET next_task == Head(all_tasks)
                   S2 == [S1 EXCEPT !.st[next_task] = "Tracked"]
               IN Result(S2, TRUE, next_task, calls, <<"task_completed">>)
          ELSE LET w == update_work_status(S1.w, S1.st, "Completed")
               IN Result([S1 EXCEPT !.w = w.w, !.st = w.st], TRUE, NoTask,
                         calls, <<"task_completed", "work_completed">>)

\* A mutation of complete_task_and_schedule_next: the next task is the
\* first open task that is not Tracked yet, if there is one
complete_task_and_schedule_next_advance(S, t, okU, okG, okC, now) ==
  IF t = NoTask THEN Result(S, FALSE, NoTask, <<>>, <<>>)
  ELSE LET mid   == S.cal[t]
           u     == IF mid # NoId THEN complete_task(S.rem, mid, okU)
                    ELSE [ok |-> FALSE, rem |-> S.rem]
           calls == IF mid # NoId THEN <<"update">> ELSE <<>>
           S1    == [S EXCEPT !.st[t] = "Completed", !.rem = u.rem]
           all_tasks == list_tasks(S1.st, S1.du)
           fresh == SelectSeq(all_tasks, LAMBDA x : S1.st[x] # "Tracked")
       IN IF all_tasks # <<>>
          THEN LET next_task == IF fresh # <<>> THEN Head(fresh)
                                ELSE Head(all_tasks)
                   S2 == [S1 EXCEPT !.st[next_task] = "Tracked"]
                   r  == ensure_task_scheduled(S2, next_task, okG, okC, now)
               IN Result(r.S, TRUE, next_task, calls \o r.calls,
                         <<"task_completed">> \o r.notes)
          ELSE LET w == update_work_status(S1.w, S1.st, "Completed")
               IN Result([S1 EXCEPT !.w = w.w, !.st = w.st], TRUE, NoTask,
                         calls, <<"task_completed", "work_completed">>)

\* core/scheduling.py complete_task_and_schedule_next(task_id)
complete_task_and_schedule_next(S, t, okU, okG, okC, now) ==
  IF t = NoTask THEN Result(S, FALSE, NoTask, <<>>, <<>>)
  ELSE LET mid   == S.cal[t]
           u     == IF mid # NoId THEN complete_task(S.rem, mid, okU)
                    ELSE [ok |-> FALSE, rem |-> S.rem]
           calls == IF mid # NoId THEN <<"update">> ELSE <<>>
           S1    == [S EXCEPT !.st[t] = "Completed", !.rem = u.rem]
           all_tasks == list_tasks(S1.st, S1.du)
       IN IF all_tasks # <<>>
          THEN LET next_task == Head(all_tasks)
                   S2 == [S1 EXCEPT !.st[next_task] = "Tracked"]
                   r  == ensure_task_scheduled(S2, next_task, okG, okC, now)
               IN Result(r.S, TRUE, next_task, calls \o r.calls,
                         <<"task_completed">> \o r.notes)
          ELSE LET w == update_work_status(S1.w, S1.st, "Completed")
               IN Result([S1 EXCEPT !.w = w.w, !.st = w.st], TRUE, NoTask,
                         calls, <<"task_completed", "work_completed">>)

\* A mutation of sync_from_google_tasks: the local status is rewritten from
\* the remote status either way, needsAction read back as Published
sync_from_google_tasks_read_back(S, t, okG) ==
  IF t = NoTask \/ S.cal[t] = NoId
  THEN Result(S, FALSE, NoTask, <<>>, <<>>)
  ELSE IF ~get_task(S.rem, S.cal[t], okG)
  THEN Result(S, FALSE, NoTask, <<"get">>, <<>>)
  ELSE LET google_task == S.rem[S.cal[t]]
           S1 == [S EXCEPT !.st[t] = IF google_task.status = "completed"
                                     THEN "Completed" ELSE "Published"]
           S2 == IF google_task.due # NoDue /\ S.du[t] # google_task.due
                 THEN [S1 EXCEPT !.du[t] = google_task.due] ELSE S1
       IN Result(S2, TRUE, NoTask, <<"get">>, <<>>)

\* core/scheduling.py sync_from_google_tasks(task_id)
sync_from_google_tasks(S, t, okG) ==
  IF t = NoTask \/ S.cal[t] = NoId
  THEN Result(S, FALSE, NoTask, <<>>, <<>>)
  ELSE IF ~get_task(S.rem, S.cal[t], okG)
  THEN Result(S, FALSE, NoTask, <<"get">>, <<>>)
  ELSE LET google_task == S.rem[S.cal[t]]
           S1 == IF google_task.status = "completed"
                    /\ S.st[t] # "Completed"
                 THEN [S EXCEPT !.st[t] = "Completed"] ELSE S
           S2 == IF google_task.due # NoDue /\ S.du[t] # google_task.due
                 THEN [S1 EXCEPT !.du[t] = google_task.due] ELSE S1
       IN Result(S2, TRUE, NoTask, <<"get">>, <<>>)

\* A mutation of delete_task_from_calendar: the local id is cleared whatever
\* the remote delete reports
delete_task_from_calendar_always_clear(S, t, okD) ==
  IF t = NoTask \/ S.cal[t] = NoId
  THEN Result(S, TRUE, NoTask, <<>>, <<>>)
  ELSE LET result == delete_task(S.rem, S.cal[t], okD)
       IN Result([S EXCEPT !.cal[t] = NoId, !.rem = result.rem],
                 result.ok, NoTask, <<"delete">>, <<>>)

\* A mutation of delete_task_from_calendar: a successful delete clears the
\* snooze counter along with the mirror id
delete_task_from_calendar_forget(S, t, okD) ==
  IF t = NoTask \/ S.cal[t] = NoId
  THEN Result(S, TRUE, NoTask, <<>>, <<>>)
  ELSE LET result == delete_task(S.rem, S.cal[t], okD)
       IN Result(IF result.ok
                 THEN [S EXCEPT !.cal[t] = NoId, !.snz[t] = 0,
                                !.rem = result.rem]
                 ELSE S,
                 result.ok, NoTask, <<"delete">>, <<>>)

\* core/scheduling.py delete_task_from_calendar(task_id)
delete_task_from_calendar(S, t, okD) ==
  IF t = NoTask \/ S.cal[t] = NoId
  THEN Result(S, TRUE, NoTask, <<>>, <<>>)
  ELSE LET result == delete_task(S.rem, S.cal[t], okD)
       IN Result(IF result.ok
                 THEN [S EXCEPT !.cal[t] = NoId, !.rem = result.rem] ELSE S,
                 result.ok, NoTask, <<"delete">>, <<>>)

\* A mutation of update_task_due_date_in_calendar: a failed remote push
\* returns before the local write
update_task_due_date_in_calendar_remote_first(S, t, new_due, okU) ==
  IF t = NoTask THEN Result(S, FALSE, NoTask, <<>>, <<>>)
  ELSE IF S.cal[t] # NoId
  THEN LET result == update_task(S.rem, S.cal[t], new_due, "", okU)
       IN IF result.ok
          THEN Result([S EXCEPT !.du[t] = new_due, !.rem = result.rem], TRUE,
                      NoTask, <<"update">>, <<>>)
          ELSE Result(S, FALSE, NoTask, <<"update">>, <<>>)
  ELSE Result([S EXCEPT !.du[t] = new_due], TRUE, NoTask, <<>>, <<>>)

\* core/scheduling.py update_task_due_date_in_calendar(task_id, new_due),
\* which reschedule_task and DueDateManager.set_due_date return unchanged
update_task_due_date_in_calendar(S, t, new_due, okU) ==
  IF t = NoTask THEN Result(S, FALSE, NoTask, <<>>, <<>>)
  ELSE LET pushed == S.cal[t] # NoId
           result == IF pushed
                     THEN update_task(S.rem, S.cal[t], new_due, "", okU)
                     ELSE [ok |-> FALSE, rem |-> S.rem]
       IN Result([S EXCEPT !.du[t] = new_due, !.rem = result.rem], TRUE,
                 NoTask, IF pushed THEN <<"update">> ELSE <<>>, <<>>)

\* core/scheduling.py reschedule_task(task_id, new_due)
reschedule_task(S, t, new_due, okU) ==
  update_task_due_date_in_calendar(S, t, new_due, okU)

\* core/due_dates.py DueDateManager.set_due_date(task_id, new_due, source)
set_due_date(S, t, new_due, okU) ==
  IF t = NoTask THEN Result(S, FALSE, NoTask, <<>>, <<>>)
  ELSE reschedule_task(S, t, new_due, okU)

\* A mutation of snooze_task: the counter is incremented only when the
\* remote push was not a failure
snooze_task_pushed_only(S, t, days, okU, now) ==
  IF t = NoTask THEN Result(S, FALSE, NoTask, <<>>, <<>>)
  ELSE LET current_due == IF S.du[t] # NoDue THEN S.du[t] ELSE now
           new_due == current_due + days * Day
           r  == set_due_date(S, t, new_due, okU)
           pushed == S.cal[t] = NoId \/ (okU /\ Known(S.rem, S.cal[t]))
       IN IF ~r.ret \/ ~pushed THEN Result(r.S, FALSE, NoTask, r.calls, <<>>)
          ELSE LET S1 == [r.S EXCEPT !.snz[t] = @ + 1]
               IN Result(S1, TRUE, NoTask, r.calls,
                         IF S1.snz[t] >= SnoozeThreshold
                         THEN <<"snooze_followup">> ELSE <<>>)

\* core/due_dates.py DueDateManager.snooze_task(task_id, days)
snooze_task(S, t, days, okU, now) ==
  IF t = NoTask THEN Result(S, FALSE, NoTask, <<>>, <<>>)
  ELSE LET current_due == IF S.du[t] # NoDue THEN S.du[t] ELSE now
           new_due == current_due + days * Day
           r  == set_due_date(S, t, new_due, okU)
       IN IF ~r.ret THEN Result(r.S, FALSE, NoTask, r.calls, <<>>)
          ELSE LET S1 == [r.S EXCEPT !.snz[t] = @ + 1]
               IN Result(S1, TRUE, NoTask, r.calls,
                         IF S1.snz[t] >= SnoozeThreshold
                         THEN <<"snooze_followup">> ELSE <<>>)

\* master/tools.py tool_snooze_task(task_id, days), which loads the task in
\* its own session and calls ReminderAgent.snooze_task (reminder.py) on it:
\* a failed remote update raises; the counter is incremented in the Store
\* by a second session; the new due date is set on the caller's object,
\* whose session is closed without a commit; the advisory is decided on the
\* counter the caller's object holds, loaded before the increment.
tool_snooze_task(S, t, days, okU, now) ==
  IF t = NoTask THEN Result(S, FALSE, NoTask, <<>>, <<>>)
  ELSE LET current_due == IF S.du[t] # NoDue THEN S.du[t] ELSE now
           new_due == current_due + days * Day
           pushed == S.cal[t] # NoId
           result == IF pushed
                     THEN update_task(S.rem, S.cal[t], new_due, "", okU)
                     ELSE [ok |-> TRUE, rem |-> S.rem]
           calls  == IF pushed THEN <<"update">> ELSE <<>>
       IN IF ~result.ok THEN Result(S, FALSE, NoTask, calls, <<>>)
          ELSE Result([S EXCEPT !.snz[t] = @ + 1, !.rem = result.rem], TRUE,
                      NoTask, calls,
                      IF S.snz[t] >= SnoozeThreshold
                      THEN <<"snooze_followup">> ELSE <<>>)

Abs(x) == IF x < 0 THEN -x ELSE x

\* A mutation of resolve_conflict: the remote due date wins every conflict
resolve_conflict_remote_wins(local_due, remote_due, source) ==
  IF local_due = NoDue /\ remote_due = NoDue THEN NoDue
  ELSE IF local_due = NoDue THEN remote_due
  ELSE IF remote_due = NoDue THEN local_due
  ELSE IF Abs(local_due - remote_due) < Tolerance THEN local_due
  ELSE remote_due

\* core/due_dates.py DueDateManager.resolve_conflict(task_id, local_due,
\* remote_due, source)
resolve_conflict(local_due, remote_due, source) ==
  IF local_due = NoDue /\ remote_due = NoDue THEN NoDue
  ELSE IF local_due = NoDue THEN remote_due
  ELSE IF remote_due = NoDue THEN local_due
  ELSE IF Abs(local_due - remote_due) < Tolerance THEN local_due
  ELSE IF source = "sync" THEN remote_due
  ELSE local_due

\* core/storage.py update_work_status(work_id, new_status) as an operation
work_status_update(S, new_status) ==
  LET w == update_work_status(S.w, S.st, new_status)
  IN Result([S EXCEPT !.w = w.w, !.st = w.st], TRUE, NoTask, <<>>, <<>>)

\* ------------------------------------------------------------- operations

\* The operation's result becomes the state.  `edit` is 1 for an operation
\* counted as a user's edit.
Apply(r, edit) ==
  /\ Len(r.S.rem) <= MaxRemote
  /\ edits + edit <= MaxEdits
  /\ workStatus' = r.S.w
  /\ status' = r.S.st
  /\ due_date' = r.S.du
  /\ calendar_event_id' = r.S.cal
  /\ snooze_count' = r.S.snz
  /\ remote' = r.S.rem
  /\ edits' = edits + edit
  /\ UNCHANGED chk

CompleteTaskAndScheduleNext(t, okU, okG, okC, now) ==
  Apply(complete_task_and_schedule_next(Cur, t, okU, okG, okC, now), 0)

EnsureTaskScheduled(t, okG, okC, now) ==
  Apply(ensure_task_scheduled(Cur, t, okG, okC, now), 0)

SyncFromGoogleTasks(t, okG) ==
  Apply(sync_from_google_tasks(Cur, t, okG), 0)

DeleteTaskFromCalendar(t, okD) ==
  Apply(delete_task_from_calendar(Cur, t, okD), 0)

RescheduleTask(t, new_due, okU) ==
  Apply(reschedule_task(Cur, t, new_due, okU), 1)

SnoozeTask(t, days, okU, now) ==
  Apply(snooze_task(Cur, t, days, okU, now), 1)

UpdateWorkStatus(new_status) ==
  Apply(work_status_update(Cur, new_status), 1)

\* ------------------------------------------------- the remote list's owner
\* The user edits the remote task list directly: completes an entry, moves
\* its due date, or deletes it.

RemoteEdit(rem) ==
  /\ edits < MaxEdits
  /\ remote' = rem
  /\ edits' = edits + 1
  /\ UNCHANGED <<store, chk>>

RemoteComplete(id) ==
  /\ Known(remote, id)
  /\ remote[id].status # "completed"
  /\ RemoteEdit([remote EXCEPT ![id].status = "completed"])

RemoteSetDue(id, new_due) ==
  /\ Known(remote, id)
  /\ remote[id].due # new_due
  /\ RemoteEdit([remote EXCEPT ![id].due = new_due])

RemoteDelete(id) ==
  /\ Known(remote, id)
  /\ RemoteEdit([remote EXCEPT ![id] = NoEntry])

\* ----------------------------------------------------------- specification

\* The outcomes a step can draw for a remote call: both when the call is
\* made, success alone (nothing fails) when it is not.
Outcomes(called) == IF called THEN BOOLEAN ELSE {TRUE}

\* The task exists and has a mirror id: the operation will call the remote
Mirrored(t) == t # NoTask /\ calendar_event_id[t] # NoId

Next ==
  \/ \E t \in TaskIds, okG \in BOOLEAN, okC \in BOOLEAN, now \in Nows :
       \E okU \in Outcomes(Mirrored(t)) :
         CompleteTaskAndScheduleNext(t, okU, okG, okC, now)
  \/ \E t \in TaskIds, okC \in BOOLEAN, now \in Nows :
       \E okG \in Outcomes(Mirrored(t)) :
         EnsureTaskScheduled(t, okG, okC, now)
  \/ \E t \in TaskIds : \E okG \in Outcomes(Mirrored(t)) :
       SyncFromGoogleTasks(t, okG)
  \/ \E t \in TaskIds : \E okD \in Outcomes(Mirrored(t)) :
       DeleteTaskFromCalendar(t, okD)
  \/ \E t \in TaskIds, d \in NewDues : \E okU \in Outcomes(Mirrored(t)) :
       RescheduleTask(t, d, okU)
  \/ \E t \in TaskIds, days \in SnoozeDays, now \in Nows :
       \E okU \in Outcomes(Mirrored(t)) :
         SnoozeTask(t, days, okU, now)
  \/ \E s \in WorkStatuses : UpdateWorkStatus(s)
  \/ \E id \in 1 .. MaxRemote : RemoteComplete(id)
  \/ \E id \in 1 .. MaxRemote, d \in NewDues : RemoteSetDue(id, d)
  \/ \E id \in 1 .. MaxRemote : RemoteDelete(id)

Spec == Init /\ [][Next]_vars

\* ------------------------------------------------- snoozing on its own
\* A task is snoozed again and again, through the DueDateManager or through
\* the master agent's tool, with or without a mirror.  `edits` counts the
\* snoozes of the behaviour.

MaxSnooze == 4

ApplySnooze(r, edit) ==
  /\ Len(r.S.rem) <= MaxRemote
  /\ edits + edit <= MaxSnooze
  /\ workStatus' = r.S.w
  /\ status' = r.S.st
  /\ due_date' = r.S.du
  /\ calendar_event_id' = r.S.cal
  /\ snooze_count' = r.S.snz
  /\ remote' = r.S.rem
  /\ edits' = edits + edit
  /\ UNCHANGED chk

SnoozeAgain(t, days, okU, now) ==
  ApplySnooze(snooze_task(Cur, t, days, okU, now), 1)

ToolSnoozeTask(t, days, okU, now) ==
  ApplySnooze(tool_snooze_task(Cur, t, days, okU, now), 1)

ScheduleSnoozed(t, okG, okC, now) ==
  ApplySnooze(ensure_task_scheduled(Cur, t, okG, okC, now), 0)

NextSnooze ==
  \/ \E t \in TaskIds, days \in SnoozeSpans, now \in Nows :
       \E okU \in Outcomes(Mirrored(t)) : SnoozeAgain(t, days, okU, now)
  \/ \E t \in TaskIds, days \in SnoozeSpans, now \in Nows :
       \E okU \in Outcomes(Mirrored(t)) : ToolSnoozeTask(t, days, okU, now)
  \/ \E t \in TaskIds, okC \in BOOLEAN, now \in Nows :
       \E okG \in Outcomes(Mirrored(t)) : ScheduleSnoozed(t, okG, okC, now)

SpecSnooze == Init /\ [][NextSnooze]_vars

\* ---------------------------------------------------- completing twice
\* The engine operations, with the task of the last step remembered in chk
\* when that step was a complete: the next step may complete it again.

\* The Store and the remote list become S
Becomes(S) ==
  /\ workStatus' = S.w
  /\ status' = S.st
  /\ due_date' = S.du
  /\ calendar_event_id' = S.cal
  /\ snooze_count' = S.snz
  /\ remote' = S.rem

NoLast == [task |-> NoTask, again |-> FALSE]

InitTwice ==
  /\ workStatus = "Draft"
  /\ status = [t \in Tasks |-> "Pending"]
  /\ due_date = [t \in Tasks |-> NoDue]
  /\ calendar_event_id = [t \in Tasks |-> NoId]
  /\ snooze_count = [t \in Tasks |-> 0]
  /\ remote = <<>>
  /\ edits = 0
  /\ chk = NoLast

ApplyTwice(r, edit, last) ==
  /\ Len(r.S.rem) <= MaxRemote
  /\ edits + edit <= MaxEdits
  /\ Becomes(r.S)
  /\ edits' = edits + edit
  /\ chk' = last

CompleteFirst(t, okU, okG, okC, now) ==
  /\ t # chk.task
  /\ ApplyTwice(complete_task_and_schedule_next(Cur, t, okU, okG, okC, now),
                0, [task |-> t, again |-> FALSE])

CompleteAgain(okU, okG, okC, now) ==
  /\ chk.task # NoTask
  /\ ApplyTwice(complete_task_and_schedule_next(Cur, chk.task, okU, okG, okC,
                                                now),
                0, [task |-> chk.task, again |-> TRUE])

ScheduleBefore(t, okG, okC, now) ==
  ApplyTwice(ensure_task_scheduled(Cur, t, okG, okC, now), 0, NoLast)

UnscheduleBefore(t, okD) ==
  ApplyTwice(delete_task_from_calendar(Cur, t, okD), 0, NoLast)

RescheduleBefore(t, new_due, okU) ==
  ApplyTwice(reschedule_task(Cur, t, new_due, okU), 1, NoLast)

NextTwice ==
  \/ \E t \in Tasks, okG \in BOOLEAN, okC \in BOOLEAN, now \in Nows :
       \E okU \in Outcomes(Mirrored(t)) :
         CompleteFirst(t, okU, okG, okC, now)
  \/ \E okG \in BOOLEAN, okC \in BOOLEAN, now \in Nows :
       \E okU \in Outcomes(Mirrored(chk.task)) :
         CompleteAgain(okU, okG, okC, now)
  \/ \E t \in Tasks, okC \in BOOLEAN, now \in Nows :
       \E okG \in Outcomes(Mirrored(t)) :
         ScheduleBefore(t, okG, okC, now)
  \/ \E t \in Tasks : \E okD \in Outcomes(Mirrored(t)) :
       UnscheduleBefore(t, okD)
  \/ \E t \in Tasks, d \in NewDues : \E okU \in Outcomes(Mirrored(t)) :
       RescheduleBefore(t, d, okU)

SpecTwice == InitTwice /\ [][NextTwice]_vars

\* ------------------------------------------------- concurrent operations
\* Two calls run at the same time on the same task, each as the sequence of
\* its Store reads, Store writes and remote calls; every Store function
\* opens a session of its own and commits before it returns.  chk holds
\* the state the calls started from and, per call, its position, the
\* objects it has read and the outcomes of its remote calls.

MaxSetup == 3

NoRow == [st |-> "", du |-> NoDue, cal |-> NoId]

\* get_task_by_id: the row of task t as read now
Row(S, t) == [st |-> S.st[t], du |-> S.du[t], cal |-> S.cal[t]]

\* A call that has not started; log is the steps and notifications of the
\* call so far, ret what it returned
NewCall(op) ==
  [op |-> op, pc |-> "read", task |-> NoRow, google_task |-> NoEntry,
   next_task |-> NoTask, event_id |-> NoId,
   new_due |-> NoDue, okG |-> TRUE, okU |-> TRUE, okC |-> TRUE,
   log |-> <<>>, ret |-> FALSE]

\* The call has returned: its locals are gone, the outcomes it met stay
Return(p) ==
  [p EXCEPT !.pc = "done", !.task = NoRow, !.google_task = NoEntry,
            !.next_task = NoTask, !.event_id = NoId, !.new_due = NoDue]

\* A mutation of the status write of sync_from_google_tasks: the status of
\* the row read at the start is written back when the remote entry is not
\* completed
sync_status_write_back(S, t, p) ==
  IF p.google_task.status = "completed" /\ p.task.st # "Completed"
  THEN [S EXCEPT !.st[t] = "Completed"]
  ELSE [S EXCEPT !.st[t] = p.task.st]

\* sync_from_google_tasks lines 222-225: the status write
sync_status_write(S, t, p) ==
  IF p.google_task.status = "completed" /\ p.task.st # "Completed"
  THEN [S EXCEPT !.st[t] = "Completed"]
  ELSE S

\* sync_from_google_tasks lines 228-234: the due date write
sync_due_write(S, t, p) ==
  IF p.google_task.due # NoDue /\ p.task.du # p.google_task.due
  THEN [S EXCEPT !.du[t] = p.google_task.due]
  ELSE S

\* One step of sync_from_google_tasks(t); ok is the outcome of the remote
\* call, if the step makes one
SyncStep(S, t, p, ok) ==
  CASE p.pc = "read" ->
         IF S.cal[t] = NoId THEN [S |-> S, p |-> Return(p)]
         ELSE [S |-> S, p |-> [p EXCEPT !.pc = "get", !.task = Row(S, t)]]
    [] p.pc = "get" ->
         IF get_task(S.rem, p.task.cal, ok)
         THEN [S |-> S,
               p |-> [p EXCEPT !.pc = "status", !.okG = ok,
                               !.google_task = S.rem[p.task.cal]]]
         ELSE [S |-> S, p |-> Return([p EXCEPT !.okG = ok])]
    [] p.pc = "status" ->
         [S |-> sync_status_write(S, t, p), p |-> [p EXCEPT !.pc = "due"]]
    [] p.pc = "due" ->
         [S |-> sync_due_write(S, t, p),
          p |-> Return([p EXCEPT !.ret = TRUE])]

\* A mutation of the step after provider.complete_task: the call returns
\* when the remote completion failed
after_remote_checked(ok) == IF ok THEN "notify" ELSE "done"

\* complete_task_and_schedule_next lines 164-171: what provider.complete_task
\* returned is not looked at, the notification comes next
after_remote(ok) == "notify"

\* One step of complete_task_and_schedule_next(t), ensure_task_scheduled of
\* the next task included
CompleteStep(S, t, p, ok, now) ==
  CASE p.pc = "read" ->
         [S |-> S, p |-> [p EXCEPT !.pc = "mark", !.task = Row(S, t)]]
    [] p.pc = "mark" ->
         [S |-> [S EXCEPT !.st[t] = "Completed"],
          p |-> [p EXCEPT !.pc = IF p.task.cal # NoId THEN "remote"
                                 ELSE "notify",
                          !.log = Append(@, "mark")]]
    [] p.pc = "remote" ->
         [S |-> [S EXCEPT !.rem = complete_task(S.rem, p.task.cal, ok).rem],
          p |-> [p EXCEPT !.pc = after_remote(ok), !.okU = ok,
                          !.log = Append(@, "remote")]]
    [] p.pc = "notify" ->
         [S |-> S, p |-> [p EXCEPT !.pc = "list",
                                   !.log = Append(@, "task_completed")]]
    [] p.pc = "list" ->
         LET all_tasks == list_tasks(S.st, S.du)
         IN IF all_tasks # <<>>
            THEN [S |-> S, p |-> [p EXCEPT !.pc = "track",
                                           !.next_task = Head(all_tasks),
                                           !.log = Append(@, "list")]]
            ELSE [S |-> S, p |-> [p EXCEPT !.pc = "work",
                                           !.log = Append(@, "list")]]
    [] p.pc = "track" ->
         [S |-> [S EXCEPT !.st[p.next_task] = "Tracked"],
          p |-> [p EXCEPT !.pc = "ensure_read", !.log = Append(@, "track")]]
    [] p.pc = "ensure_read" ->
         [S |-> S,
          p |-> [p EXCEPT !.task = Row(S, p.next_task),
                          !.pc = IF S.cal[p.next_task] # NoId
                                 THEN "ensure_get" ELSE "ensure_create",
                          !.log = Append(@, "ensure")]]
    [] p.pc = "ensure_get" ->
         IF get_task(S.rem, p.task.cal, ok)
         THEN [S |-> S, p |-> Return([p EXCEPT !.okG = ok, !.ret = TRUE])]
         ELSE [S |-> S, p |-> [p EXCEPT !.pc = "ensure_create", !.okG = ok]]
    [] p.pc = "ensure_create" ->
         LET c == create_task(S.rem, default_due(p.task.du, now), p.task.st,
                              ok)
         IN IF c.ok
            THEN [S |-> [S EXCEPT !.rem = c.rem],
                  p |-> [p EXCEPT !.pc = "ensure_write", !.okC = ok,
                                  !.event_id = c.id]]
            ELSE [S |-> S, p |-> Return([p EXCEPT !.okC = ok, !.ret = TRUE])]
    [] p.pc = "ensure_write" ->
         [S |-> [S EXCEPT !.cal[p.next_task] = p.event_id],
          p |-> Return([p EXCEPT !.ret = TRUE])]
    [] p.pc = "work" ->
         LET w == update_work_status(S.w, S.st, "Completed")
         IN [S |-> [S EXCEPT !.w = w.w, !.st = w.st],
             p |-> Return([p EXCEPT !.ret = TRUE,
                                    !.log = Append(@, "work_completed")])]

\* One step of ensure_task_scheduled(t) called on its own
EnsureStep(S, t, p, ok, now) ==
  CASE p.pc = "read" ->
         [S |-> S,
          p |-> [p EXCEPT !.task = Row(S, t),
                          !.pc = IF S.cal[t] # NoId THEN "get"
                                 ELSE "create"]]
    [] p.pc = "get" ->
         IF get_task(S.rem, p.task.cal, ok)
         THEN [S |-> S, p |-> Return([p EXCEPT !.okG = ok, !.ret = TRUE])]
         ELSE [S |-> S, p |-> [p EXCEPT !.pc = "create", !.okG = ok]]
    [] p.pc = "create" ->
         LET c == create_task(S.rem, default_due(p.task.du, now), p.task.st,
                              ok)
         IN IF c.ok
            THEN [S |-> [S EXCEPT !.rem = c.rem],
                  p |-> [p EXCEPT !.pc = "write", !.okC = ok,
                                  !.event_id = c.id]]
            ELSE [S |-> S, p |-> Return([p EXCEPT !.okC = ok])]
    [] p.pc = "write" ->
         [S |-> [S EXCEPT !.cal[t] = p.event_id],
          p |-> Return([p EXCEPT !.ret = TRUE])]

\* One step of DueDateManager.snooze_task(t, days): the task is read and
\* the new due date computed from it; reschedule_task reads the task again,
\* pushes the due date to the mirror and stores it; the counter is
\* incremented; the task is read once more for the follow-up notification
SnoozeStep(S, t, p, days, ok, now) ==
  CASE p.pc = "read" ->
         [S |-> S,
          p |-> [p EXCEPT !.pc = "push_read",
                          !.new_due = (IF S.du[t] # NoDue THEN S.du[t]
                                       ELSE now) + days * Day]]
    [] p.pc = "push_read" ->
         [S |-> S,
          p |-> [p EXCEPT !.task = Row(S, t),
                          !.pc = IF S.cal[t] # NoId THEN "push"
                                 ELSE "write"]]
    [] p.pc = "push" ->
         [S |-> [S EXCEPT !.rem = update_task(S.rem, p.task.cal, p.new_due,
                                              "", ok).rem],
          p |-> [p EXCEPT !.pc = "write", !.okU = ok]]
    [] p.pc = "write" ->
         [S |-> [S EXCEPT !.du[t] = p.new_due],
          p |-> [p EXCEPT !.pc = "increment"]]
    [] p.pc = "increment" ->
         [S |-> [S EXCEPT !.snz[t] = @ + 1], p |-> [p EXCEPT !.pc = "refresh"]]
    [] p.pc = "refresh" ->
         [S |-> S,
          p |-> Return([p EXCEPT !.ret = TRUE,
                                 !.log = IF S.snz[t] >= SnoozeThreshold
                                         THEN Append(@, "snooze_followup")
                                         ELSE @])]

\* The step makes a remote call
Remote(p) ==
  p.pc \in {"get", "remote", "ensure_get", "ensure_create", "create", "push"}

NoRace == [phase |-> "setup", n |-> 0]

InitRace ==
  /\ workStatus = "Draft"
  /\ status = [t \in Tasks |-> "Pending"]
  /\ due_date = [t \in Tasks |-> NoDue]
  /\ calendar_event_id = [t \in Tasks |-> NoId]
  /\ snooze_count = [t \in Tasks |-> 0]
  /\ remote = <<>>
  /\ edits = 0
  /\ chk = NoRace

\* Before the two calls start: an operation on its own
Setup(S) ==
  /\ chk.phase = "setup"
  /\ chk.n < MaxSetup
  /\ Becomes(S)
  /\ chk' = [chk EXCEPT !.n = @ + 1]
  /\ UNCHANGED edits

SetupComplete(t, now) ==
  Setup(complete_task_and_schedule_next(Cur, t, TRUE, TRUE, TRUE, now).S)

SetupReschedule(t, new_due) ==
  /\ Mirrored(t)
  /\ Setup(reschedule_task(Cur, t, new_due, FALSE).S)

SetupRemoteComplete(id) ==
  /\ Known(remote, id)
  /\ remote[id].status # "completed"
  /\ Setup([Cur EXCEPT !.rem[id].status = "completed"])

\* Two calls start on task t: a sync and a second call, sync or complete
Fork(t, op) ==
  /\ chk.phase = "setup"
  /\ Mirrored(t)
  /\ chk' = [phase |-> "run", t |-> t, start |-> Cur,
             calls |-> <<NewCall("sync"), NewCall(op)>>]
  /\ UNCHANGED <<store, remote, edits>>

\* Call i takes its next step
Step(i, ok, now) ==
  /\ chk.phase = "run"
  /\ chk.calls[i].pc # "done"
  /\ LET p == chk.calls[i]
         r == CASE p.op = "sync" -> SyncStep(Cur, chk.t, p, ok)
                [] p.op = "ensure" -> EnsureStep(Cur, chk.t, p, ok, now)
                [] OTHER -> CompleteStep(Cur, chk.t, p, ok, now)
     IN /\ Becomes(r.S)
        /\ chk' = [chk EXCEPT !.calls[i] = r.p]
  /\ UNCHANGED edits

NextRace ==
  \/ \E t \in Tasks, now \in Nows : SetupComplete(t, now)
  \/ \E t \in Tasks, d \in NewDues : SetupReschedule(t, d)
  \/ \E id \in 1 .. MaxSetup : SetupRemoteComplete(id)
  \/ \E t \in Tasks, op \in {"sync", "complete"} : Fork(t, op)
  \/ \E i \in 1 .. 2, now \in Nows :
       \E ok \in Outcomes(chk.phase = "run" /\ Remote(chk.calls[i])) :
         Step(i, ok, now)

SpecRace == InitRace /\ [][NextRace]_vars

\* Two ensure_task_scheduled calls start on task t
ForkEnsure(t) ==
  /\ chk.phase = "setup"
  /\ chk' = [phase |-> "run", t |-> t, start |-> Cur,
             calls |-> <<NewCall("ensure"), NewCall("ensure")>>]
  /\ UNCHANGED <<store, remote, edits>>

SpecEnsureRace ==
  /\ InitRace
  /\ [][\/ \E t \in Tasks, now \in Nows : SetupComplete(t, now)
        \/ \E t \in Tasks, d \in NewDues : SetupReschedule(t, d)
        \/ \E t \in Tasks : ForkEnsure(t)
        \/ \E i \in 1 .. 2, now \in Nows :
             \E ok \in Outcomes(chk.phase = "run" /\ Remote(chk.calls[i])) :
               Step(i, ok, now)]_vars

\* A new Work with its Tasks, nothing scheduled; the bookkeeping of the
\* specification starts as one of inputs
InitWith(inputs) ==
  /\ workStatus = "Draft"
  /\ status = [t \in Tasks |-> "Pending"]
  /\ due_date = [t \in Tasks |-> NoDue]
  /\ calendar_event_id = [t \in Tasks |-> NoId]
  /\ snooze_count = [t \in Tasks |-> 0]
  /\ remote = <<>>
  /\ edits = 0
  /\ chk \in inputs

\* ------------------------------------------ resolve_conflict on its own
\* Every pair of due dates of ResolveDues, with every source, is put to
\* resolve_conflict.

ResolveDues ==
  {NoDue, Day, Day + 30, Day + 59, Day + 60, Day + 61, Day + 90}
Sources == {"sync", "manual", "snooze"}

InitResolve ==
  /\ workStatus = "Draft"
  /\ status = [t \in Tasks |-> "Pending"]
  /\ due_date = [t \in Tasks |-> NoDue]
  /\ calendar_event_id = [t \in Tasks |-> NoId]
  /\ snooze_count = [t \in Tasks |-> 0]
  /\ remote = <<>>
  /\ edits = 0
  /\ chk \in [local_due : ResolveDues, remote_due : ResolveDues,
              source : Sources, done : {FALSE}, res : {NoDue}]

ResolveConflict ==
  /\ ~chk.done
  /\ chk' = [chk EXCEPT
               !.done = TRUE,
               !.res = resolve_conflict(chk.local_due, chk.remote_due,
                                        chk.source)]
  /\ UNCHANGED <<store, remote, edits>>

NextResolve == ResolveConflict

SpecResolve == InitResolve /\ [][NextResolve]_vars

\* ------------------------------------------- the status model on its own
\* Every pair of task statuses and every pair of work statuses is put to
\* the two can_transition functions.

InitStatus ==
  /\ workStatus = "Draft"
  /\ status = [t \in Tasks |-> "Pending"]
  /\ due_date = [t \in Tasks |-> NoDue]
  /\ calendar_event_id = [t \in Tasks |-> NoId]
  /\ snooze_count = [t \in Tasks |-> 0]
  /\ remote = <<>>
  /\ edits = 0
  /\ chk \in [tfrom : TaskStatuses, tto : TaskStatuses, wfrom : WorkStatuses,
              wto : WorkStatuses, done : {FALSE}, tres : {FALSE},
              wres : {FALSE}]

CanTransition ==
  /\ ~chk.done
  /\ chk' = [chk EXCEPT !.done = TRUE,
                        !.tres = task_can_transition(chk.tfrom, chk.tto),
                        !.wres = work_can_transition(chk.wfrom, chk.wto)]
  /\ UNCHANGED <<store, remote, edits>>

NextStatus == CanTransition

SpecStatus == InitStatus /\ [][NextStatus]_vars

\* ------------------------------------------------------------------ claims

\* Number of occurrences of x in the sequence s
Count(s, x) == Cardinality({i \in DOMAIN s : s[i] = x})

\* The task has a mirror id in S and the remote entry it names exists
HasMirror(S, t) == S.cal[t] # NoId /\ Known(S.rem, S.cal[t])

\* C1: for every pair of task statuses, can_transition accepts the pair
\* exactly when from = to, or to = Completed, or the pair is one of
\* Pending->Published, Published->Tracked, Tracked->Published,
\* Completed->Published.
C1_TaskCanTransition ==
  chk.done =>
    (chk.tres <=>
       \/ chk.tfrom = chk.tto
       \/ chk.tto = "Completed"
       \/ <<chk.tfrom, chk.tto>> \in
            {<<"Pending", "Published">>, <<"Published", "Tracked">>,
             <<"Tracked", "Published">>, <<"Completed", "Published">>})

\* The pair Pending -> Tracked was put to can_transition and rejected.
C1_Witness ==
  chk.done /\ chk.tfrom = "Pending" /\ chk.tto = "Tracked" /\ ~chk.tres

\* C2: for every pair of work statuses, can_transition accepts the pair
\* exactly when from = to or the pair is one of Draft->Published,
\* Published->Completed, Published->Draft, Completed->Draft.
C2_WorkCanTransition ==
  chk.done =>
    (chk.wres <=>
       \/ chk.wfrom = chk.wto
       \/ <<chk.wfrom, chk.wto>> \in
            {<<"Draft", "Published">>, <<"Published", "Completed">>,
             <<"Published", "Draft">>, <<"Completed", "Draft">>})

\* The pair Draft -> Completed was put to can_transition and rejected.
C2_Witness ==
  chk.done /\ chk.wfrom = "Draft" /\ chk.wto = "Completed" /\ ~chk.wres

\* C3: every change of a stored Task status or Work status made by a step
\* is a pair that the corresponding can_transition accepts.
C3_ChangesAccepted ==
  [][/\ \A t \in Tasks : task_can_transition(status[t], status'[t])
     /\ work_can_transition(workStatus, workStatus')]_vars

\* C4: a Work whose status is Completed has no Task whose status is other
\* than Completed.
C4_CompletedWork ==
  workStatus = "Completed" => \A t \in Tasks : status[t] = "Completed"

\* A Completed Work of which a task is mirrored and a task was snoozed
\* after the Work was completed (the one edit of the behaviour).
C4_Witness ==
  /\ workStatus = "Completed"
  /\ \E t \in Tasks : snooze_count[t] > 0
  /\ \E t \in Tasks : calendar_event_id[t] # NoId

\* C5: complete on the only Task that is not Completed stores the Task as
\* Completed and the Work as Completed, sends exactly one work-completion
\* notification, and sets no Task to Tracked.
C5_CompleteLast ==
  \A t \in Tasks, okU \in BOOLEAN, okG \in BOOLEAN, okC \in BOOLEAN,
     now \in Nows :
    LET r == complete_task_and_schedule_next(Cur, t, okU, okG, okC, now)
    IN (/\ status[t] # "Completed"
        /\ \A u \in Tasks \ {t} : status[u] = "Completed")
       => /\ r.ret
          /\ r.S.st[t] = "Completed"
          /\ r.S.w = "Completed"
          /\ Count(r.notes, "work_completed") = 1
          /\ r.next = NoTask
          /\ \A u \in Tasks : r.S.st[u] # "Tracked"

\* The Work was completed by the completion of its last task: no edit was
\* made, so no Work status update completed it.
C5_Witness ==
  /\ workStatus = "Completed"
  /\ edits = 0
  /\ \A t \in Tasks : status[t] = "Completed"

\* What C6 says of complete(t) when another task is not Completed, apart
\* from the mirror of the next task
CompleteAdvances(t, r) ==
  /\ r.ret
  /\ r.S.st[t] = "Completed"
  /\ r.next \in Tasks \ {t}
  /\ status[r.next] # "Completed"
  /\ r.S.st[r.next] = "Tracked"
  /\ \A u \in Tasks \ {t, r.next} : r.S.st[u] = status[u]
  /\ r.S.w = workStatus
  /\ Count(r.notes, "work_completed") = 0

C7_SyncAsComplete ==
  \A t \in Tasks, now \in Nows :
    (/\ HasMirror(Cur, t)
     /\ remote[calendar_event_id[t]].status = "completed"
     /\ status[t] # "Completed")
    => LET s == sync_from_google_tasks(Cur, t, TRUE)
           c == complete_task_and_schedule_next(Cur, t, TRUE, TRUE, TRUE, now)
       IN /\ s.S.st = c.S.st
          /\ s.S.w = c.S.w
          /\ s.S.cal = c.S.cal

\* C8: ensure_task_scheduled on a Task whose mirror id names an existing
\* remote entry makes no remote create, leaves the mirror id unchanged and
\* adds no remote entry.
C8_EnsureIdempotent ==
  \A t \in Tasks, okG \in BOOLEAN, okC \in BOOLEAN, now \in Nows :
    HasMirror(Cur, t)
    => LET r == ensure_task_scheduled(Cur, t, okG, okC, now)
       IN /\ Count(r.calls, "create") = 0
          /\ r.S.cal[t] = calendar_event_id[t]
          /\ Len(r.S.rem) = Len(remote)

\* C9: delete_task_from_calendar returns success without a remote call when
\* the Task has no mirror id; with a mirror id it calls remote delete once,
\* clears the id exactly when the delete reports success and returns what
\* the delete reported; after a failure nothing has changed; after a
\* success a second call is a success without a remote call or a change.
C9_DeleteMirror ==
  \A t \in Tasks, okD \in BOOLEAN, okD2 \in BOOLEAN :
    LET r == delete_task_from_calendar(Cur, t, okD)
        deleted == okD /\ Known(remote, calendar_event_id[t])
    IN /\ calendar_event_id[t] = NoId
            => r.ret /\ r.calls = <<>> /\ r.S = Cur
       /\ calendar_event_id[t] # NoId
            => /\ r.calls = <<"delete">>
               /\ r.ret = deleted
               /\ (r.S.cal[t] = NoId) = deleted
               /\ ~deleted => r.S = Cur
               /\ deleted =>
                    LET r2 == delete_task_from_calendar(r.S, t, okD2)
                    IN r2.ret /\ r2.calls = <<>> /\ r2.S = r.S

\* A remote entry was deleted with no edit made, so by
\* delete_task_from_calendar, and no Task keeps its id.
C9_Witness ==
  /\ edits = 0
  /\ \E id \in 1 .. Len(remote) :
       /\ ~remote[id].exists
       /\ \A t \in Tasks : calendar_event_id[t] # id

\* C10: after reschedule_task on an existing Task the local due date is
\* new_due, whether the remote push succeeded, failed or was not attempted.
C10_RescheduleLocal ==
  \A t \in Tasks, new_due \in NewDues, okU \in BOOLEAN :
    LET r == reschedule_task(Cur, t, new_due, okU)
    IN /\ r.S.du[t] = new_due
       /\ r.calls = (IF calendar_event_id[t] # NoId THEN <<"update">>
                     ELSE <<>>)

\* A mirrored Task was rescheduled to day 2 while the remote push failed:
\* the remote entry keeps the default due time it was created with.
C10_Witness ==
  /\ edits = 1
  /\ \E t \in Tasks :
       /\ HasMirror(Cur, t)
       /\ snooze_count[t] = 0
       /\ due_date[t] = 2 * Day
       /\ remote[calendar_event_id[t]].due = default_due(NoDue, 0)

\* C11: reschedule_task and set_due_date on a mirrored Task whose remote
\* update fails return a value that differs from the value of the call whose
\* remote update succeeds, and from the value returned for a Task that does
\* not exist.
C11_RemoteFailureReported ==
  \A t \in Tasks, new_due \in NewDues :
    HasMirror(Cur, t)
    => /\ LET applied == reschedule_task(Cur, t, new_due, TRUE)
              stale   == reschedule_task(Cur, t, new_due, FALSE)
              nothing == reschedule_task(Cur, NoTask, new_due, TRUE)
          IN stale.ret # applied.ret /\ stale.ret # nothing.ret
       /\ LET applied == set_due_date(Cur, t, new_due, TRUE)
              stale   == set_due_date(Cur, t, new_due, FALSE)
              nothing == set_due_date(Cur, NoTask, new_due, TRUE)
          IN stale.ret # applied.ret /\ stale.ret # nothing.ret

\* ------------------------------------------------------- claims: due dates

\* C12: DueDateManager.snooze_task on an existing Task, by one day or more,
\* stores the due date (previous due date, or the current time if none)
\* plus that many days and the snooze counter plus one, whatever the counter
\* was and whether the remote update succeeded, failed or was not made.
C12_SnoozeExact ==
  \A t \in Tasks, days \in SnoozeSpans, okU \in BOOLEAN, now \in Nows :
    LET r == snooze_task(Cur, t, days, okU, now)
        previous == IF due_date[t] # NoDue THEN due_date[t] ELSE now
    IN /\ r.ret
       /\ r.S.du[t] = previous + days * Day
       /\ r.S.snz[t] = snooze_count[t] + 1
       /\ \A u \in Tasks \ {t} :
            r.S.du[u] = due_date[u] /\ r.S.snz[u] = snooze_count[u]

\* A mirrored Task snoozed by one day and by two days, the second time
\* with a failed remote update: three days after the clock reading, the
\* counter at 2, the remote due date behind.
C12_Witness ==
  \E t \in Tasks :
    /\ HasMirror(Cur, t)
    /\ snooze_count[t] = 2
    /\ due_date[t] = 3 * Day
    /\ remote[calendar_event_id[t]].due \notin {NoDue, due_date[t]}

\* The snooze operation r on task t sent one advisory if it left the
\* counter at the threshold or above, and none otherwise
AdvisedOnce(r, t) ==
  r.ret => Count(r.notes, "snooze_followup") =
             (IF r.S.snz[t] >= SnoozeThreshold THEN 1 ELSE 0)

\* C13: a snooze operation that leaves the Task's snooze counter at 3 or
\* more sends exactly one snooze advisory, and a snooze operation that
\* leaves it below 3 sends none, through the DueDateManager and through
\* ReminderAgent.snooze_task alike.
C13_SnoozeAdvisory ==
  \A t \in Tasks, days \in SnoozeSpans, okU \in BOOLEAN, now \in Nows :
    /\ AdvisedOnce(snooze_task(Cur, t, days, okU, now), t)
    /\ AdvisedOnce(tool_snooze_task(Cur, t, days, okU, now), t)

BothPresent == chk.local_due # NoDue /\ chk.remote_due # NoDue

C16_SyncAtTolerance ==
  (chk.done /\ chk.source = "sync" /\ BothPresent)
  => /\ chk.res # chk.local_due
          => Abs(chk.local_due - chk.remote_due) > 60
     /\ Abs(chk.local_due - chk.remote_due) = 60
          => chk.res = chk.local_due

\* ------------------------------------------------------------ claims: sync

\* C17: sync_from_google_tasks on a mirrored Task whose remote entry
\* reports needsAction leaves the status of the Task, of every other Task
\* and of the Work as they are, whatever the local status is.
C17_SyncKeepsStatus ==
  \A t \in Tasks, okG \in BOOLEAN :
    (HasMirror(Cur, t) /\ remote[calendar_event_id[t]].status = "needsAction")
    => LET r == sync_from_google_tasks(Cur, t, okG)
       IN r.S.st = status /\ r.S.w = workStatus

\* A Tracked Task whose remote entry reports needsAction was synced: it
\* has the due date its entry was created with (no edit was made, and only
\* the sync writes a remote due date to the Store) and is still Tracked.
C17_Witness ==
  /\ edits = 0
  /\ \E t \in Tasks :
       /\ HasMirror(Cur, t)
       /\ status[t] = "Tracked"
       /\ remote[calendar_event_id[t]].status = "needsAction"
       /\ due_date[t] = remote[calendar_event_id[t]].due
       /\ due_date[t] # NoDue

\* C18: after sync_from_google_tasks has fetched a remote entry that
\* carries a due date, the local due date of the Task is
\* resolve_conflict(local due, remote due, "sync").
C18_SyncResolves ==
  \A t \in Tasks :
    (HasMirror(Cur, t) /\ remote[calendar_event_id[t]].due # NoDue)
    => LET r == sync_from_google_tasks(Cur, t, TRUE)
       IN r.S.du[t] = resolve_conflict(due_date[t],
                                       remote[calendar_event_id[t]].due,
                                       "sync")

\* ------------------------------------------------ claims: concurrent calls

\* Task statuses, due dates, mirror ids and Work status of S
StoreOf(S) == [w |-> S.w, st |-> S.st, du |-> S.du, cal |-> S.cal]

\* The whole call p run from S on its own, with the outcomes p met
RunAlone(S, t, p, now) ==
  IF p.op = "sync" THEN sync_from_google_tasks(S, t, p.okG).S
  ELSE complete_task_and_schedule_next(S, t, p.okU, p.okG, p.okC, now).S

BothDone == chk.phase = "run" /\ \A i \in 1 .. 2 : chk.calls[i].pc = "done"

\* C19: when two concurrent sync_from_google_tasks calls on a Task, or a
\* sync_from_google_tasks and a concurrent complete_task_and_schedule_next
\* of the Task, have both returned, the Store is as after running the two
\* calls one after the other from the state they started in.
C19_Interleavings ==
  BothDone =>
    \E now \in Nows, i \in 1 .. 2 :
      StoreOf(Cur) =
        StoreOf(RunAlone(RunAlone(chk.start, chk.t, chk.calls[i], now),
                         chk.t, chk.calls[3 - i], now))

\* A sync and a complete of a Tracked Task whose remote entry has another
\* due date have both returned: the Task is Completed with the remote due
\* date, and the next Task has got a mirror.
C19_Witness ==
  /\ BothDone
  /\ chk.calls[2].op = "complete"
  /\ chk.start.st[chk.t] = "Tracked"
  /\ status[chk.t] = "Completed"
  /\ due_date[chk.t] # chk.start.du[chk.t]
  /\ \E u \in Tasks : calendar_event_id[u] # chk.start.cal[u]

\* -------------------------------------------------- claims: complete twice

\* The ids of the remote entries of S
RemoteIds(S) == {id \in 1 .. Len(S.rem) : S.rem[id].exists}

C21_EnsureOnce ==
  (BothDone /\ chk.calls[1].op = "ensure" /\ chk.start.cal[chk.t] = NoId)
  => /\ Len(remote) <= Len(chk.start.rem) + 1
     /\ \A id \in Len(chk.start.rem) + 1 .. Len(remote) :
          calendar_event_id[chk.t] = id

\* -------------------------------------------- the attempts of a remote call

\* create_task line 170
max_retries == 3

\* One attempt returns, times out (socket.timeout) or raises another error
AttemptOutcomes == {"ok", "timeout", "error"}

\* One provider call on a list holding entry 1; service: the provider was
\* authenticated
InitRetry ==
  /\ workStatus = "Draft"
  /\ status = [t \in Tasks |-> "Pending"]
  /\ due_date = [t \in Tasks |-> NoDue]
  /\ calendar_event_id = [t \in Tasks |-> NoId]
  /\ snooze_count = [t \in Tasks |-> 0]
  /\ \E d \in NewDues, s \in {"needsAction", "completed"} :
       remote = <<[exists |-> TRUE, status |-> s, due |-> d]>>
  /\ edits = 0
  /\ chk \in [op : {"create", "update", "complete", "delete", "get"},
              id : {1}, due : NewDues, st : TaskStatuses, service : BOOLEAN,
              attempts : {<<>>}, pc : {"call"}, ok : {FALSE}]

\* The call returns: ok is whether it reports success
Returns(attempts, ok) ==
  chk' = [chk EXCEPT !.attempts = attempts, !.pc = "done", !.ok = ok]

\* "if not self.service: return None" at the head of every call
NoService ==
  /\ chk.pc = "call"
  /\ ~chk.service
  /\ Returns(chk.attempts, FALSE)
  /\ UNCHANGED <<store, remote, edits>>

\* create_task lines 172-187: one pass of the retry loop
CreateAttempt(o) ==
  /\ chk.pc = "call" /\ chk.service /\ chk.op = "create"
  /\ LET attempts == Append(chk.attempts, o)
         c == create_task(remote, chk.due, chk.st, o = "ok")
     IN /\ remote' = c.rem
        /\ IF c.ok THEN Returns(attempts, TRUE)
           ELSE IF Len(attempts) < max_retries
           THEN chk' = [chk EXCEPT !.attempts = attempts]
           ELSE Returns(attempts, FALSE)
  /\ UNCHANGED <<store, edits>>

\* update_task lines 211-231: one try block, no loop
UpdateAttempt(o) ==
  /\ chk.pc = "call" /\ chk.service /\ chk.op \in {"update", "complete"}
  /\ LET u == IF chk.op = "update"
              THEN update_task(remote, chk.id, chk.due, "", o = "ok")
              ELSE complete_task(remote, chk.id, o = "ok")
     IN /\ remote' = u.rem
        /\ Returns(Append(chk.attempts, o), u.ok)
  /\ UNCHANGED <<store, edits>>

\* delete_task lines 248-254: one try block, no loop
DeleteAttempt(o) ==
  /\ chk.pc = "call" /\ chk.service /\ chk.op = "delete"
  /\ LET d == delete_task(remote, chk.id, o = "ok")
     IN /\ remote' = d.rem
        /\ Returns(Append(chk.attempts, o), d.ok)
  /\ UNCHANGED <<store, edits>>

\* get_task lines 271-276: one try block, no loop
GetAttempt(o) ==
  /\ chk.pc = "call" /\ chk.service /\ chk.op = "get"
  /\ Returns(Append(chk.attempts, o), get_task(remote, chk.id, o = "ok"))
  /\ UNCHANGED <<store, remote, edits>>

SpecRetry ==
  /\ InitRetry
  /\ [][\/ NoService
        \/ \E o \in AttemptOutcomes : CreateAttempt(o)
        \/ \E o \in AttemptOutcomes : UpdateAttempt(o)
        \/ \E o \in AttemptOutcomes : DeleteAttempt(o)
        \/ \E o \in AttemptOutcomes : GetAttempt(o)]_vars

\* C22: a remote call of an authenticated provider that has returned made at
\* most 3 attempts, made no attempt after a successful one, reports success
\* exactly when its last attempt succeeded, and reports failure only after 3
\* failed attempts.
C22_ThreeAttempts ==
  (chk.pc = "done" /\ chk.service)
  => /\ Len(chk.attempts) \in 1 .. max_retries
     /\ \A i \in 1 .. Len(chk.attempts) - 1 : chk.attempts[i] # "ok"
     /\ chk.ok <=> chk.attempts[Len(chk.attempts)] = "ok"
     /\ ~chk.ok => Len(chk.attempts) = max_retries

\* ------------------------------------------------- the notifier's outcomes
\* The engine operations, with an outcome for each notification they send.

\* complete_task_and_schedule_next sends at most two notifications
MaxNotes == 2

\* SlackNotifier.send_plain: True when the message was posted; posted is
\* FALSE when no webhook is configured, the response is not 200 or the post
\* raises
send_plain(posted) == posted

SendOutcomes == [1 .. MaxNotes -> BOOLEAN]

AllPosted == [i \in 1 .. MaxNotes |-> TRUE]

\* A mutation of Notify: the operation reports failure when a send fails
Notify_checked(r, okN) ==
  LET sent == [i \in 1 .. Len(r.notes) |-> send_plain(okN[i])]
  IN [S |-> r.S, ret |-> r.ret /\ \A i \in 1 .. Len(sent) : sent[i],
      sent |-> sent]

\* The sends of an operation, in the order made, under the outcomes okN:
\* every send_* returns send_plain's value, which the operation discards
Notify(r, okN) ==
  LET sent == [i \in 1 .. Len(r.notes) |-> send_plain(okN[i])]
  IN [S |-> r.S, ret |-> r.ret, sent |-> sent]

\* The last operation, the value it returned, and whether one of its sends
\* failed
NoSend == [op |-> "none", ret |-> FALSE, lost |-> FALSE]

\* The operations of one run: enough for the follow-up of one task
MaxNotifyOps == 3

ApplyNotify(op, n, edit) ==
  /\ Len(n.S.rem) <= MaxRemote
  /\ edits + edit <= MaxNotifyOps
  /\ Becomes(n.S)
  /\ edits' = edits + edit
  /\ chk' = [op |-> op, ret |-> n.ret,
             lost |-> \E i \in 1 .. Len(n.sent) : ~n.sent[i]]

CompleteNotifying(t, okU, okG, okC, now, okN) ==
  ApplyNotify("complete",
              Notify(complete_task_and_schedule_next(Cur, t, okU, okG, okC,
                                                     now), okN), 1)

EnsureNotifying(t, okG, okC, now, okN) ==
  ApplyNotify("ensure",
              Notify(ensure_task_scheduled(Cur, t, okG, okC, now), okN), 1)

SnoozeNotifying(t, days, okU, now, okN) ==
  ApplyNotify("snooze", Notify(snooze_task(Cur, t, days, okU, now), okN), 1)

SpecNotify ==
  /\ InitWith({NoSend})
  /\ [][\E t \in TaskIds, now \in Nows, okN \in SendOutcomes :
          \/ \E okG \in BOOLEAN, okC \in BOOLEAN :
               \E okU \in Outcomes(Mirrored(t)) :
                 CompleteNotifying(t, okU, okG, okC, now, okN)
          \/ \E okC \in BOOLEAN :
               \E okG \in Outcomes(Mirrored(t)) :
                 EnsureNotifying(t, okG, okC, now, okN)
          \/ \E days \in SnoozeDays :
               \E okU \in Outcomes(Mirrored(t)) :
                 SnoozeNotifying(t, days, okU, now, okN)]_vars

C24_MirroredHasDue ==
  \A t \in Tasks : calendar_event_id[t] # NoId => due_date[t] # NoDue

\* ---------------------------------------------------- bulk due-date update
\* bulk_set_due_dates(task_due_map): the map is a sequence of entries
\* [task_id, due_date] with distinct keys, in the dict's iteration order;
\* oks[i] is the outcome of the remote update of entry i.

\* The entries of one map
MaxBulk == 2

\* The operations of one run
MaxBulkOps == 2

Keys(task_due_map) ==
  {task_due_map[i].task_id : i \in 1 .. Len(task_due_map)}

\* The keys tried: two Tasks and an id that is no Task
BulkKeys == {NoTask, 1, 2}

TaskDueMaps ==
  {m \in UNION {[1 .. n -> [task_id : BulkKeys, due_date : NewDues]] :
                n \in 0 .. MaxBulk} :
     \A i, j \in 1 .. Len(m) : m[i].task_id = m[j].task_id => i = j}

BulkOutcomes == [1 .. MaxBulk -> BOOLEAN]

RECURSIVE bulk_loop_atomic(_, _, _, _, _)
\* A mutation of bulk_loop: the first failing entry ends the loop
bulk_loop_atomic(S, task_due_map, oks, i, results) ==
  IF i > Len(task_due_map) THEN [S |-> S, results |-> results]
  ELSE LET e == task_due_map[i]
           r == set_due_date(S, e.task_id, e.due_date, oks[i])
           res == [k \in DOMAIN results \cup {e.task_id} |->
                     IF k = e.task_id THEN r.ret ELSE results[k]]
       IN IF ~r.ret THEN [S |-> r.S, results |-> res]
          ELSE bulk_loop_atomic(r.S, task_due_map, oks, i + 1, res)

RECURSIVE bulk_loop(_, _, _, _, _)
\* The for loop of bulk_set_due_dates from entry i on
bulk_loop(S, task_due_map, oks, i, results) ==
  IF i > Len(task_due_map) THEN [S |-> S, results |-> results]
  ELSE LET e == task_due_map[i]
           r == set_due_date(S, e.task_id, e.due_date, oks[i])
       IN bulk_loop(r.S, task_due_map, oks, i + 1,
                    [k \in DOMAIN results \cup {e.task_id} |->
                       IF k = e.task_id THEN r.ret ELSE results[k]])

\* core/due_dates.py bulk_set_due_dates(task_due_map)
bulk_set_due_dates(S, task_due_map, oks) ==
  bulk_loop(S, task_due_map, oks, 1, <<>>)

\* The map returned by the last call, and the key of its last entry
NoBulk == [results |-> <<>>, last |-> NoTask]

BulkSetDueDates(task_due_map, oks) ==
  /\ edits < MaxBulkOps
  /\ LET b == bulk_set_due_dates(Cur, task_due_map, oks)
     IN /\ Becomes(b.S)
        /\ chk' = [results |-> b.results,
                   last |-> IF task_due_map = <<>> THEN NoTask
                            ELSE task_due_map[Len(task_due_map)].task_id]
  /\ edits' = edits + 1

ScheduleBulk(t, okG, okC, now) ==
  /\ edits < MaxBulkOps
  /\ LET r == ensure_task_scheduled(Cur, t, okG, okC, now)
     IN /\ Len(r.S.rem) <= MaxRemote
        /\ Becomes(r.S)
  /\ edits' = edits + 1
  /\ chk' = NoBulk

SpecBulk ==
  /\ InitWith({NoBulk})
  /\ [][\/ \E task_due_map \in TaskDueMaps, oks \in BulkOutcomes :
             BulkSetDueDates(task_due_map, oks)
        \/ \E t \in Tasks, okC \in BOOLEAN, now \in Nows :
             \E okG \in Outcomes(Mirrored(t)) :
               ScheduleBulk(t, okG, okC, now)]_vars

\* C25: from every reachable state, for every map and every outcome of the
\* remote updates, bulk_set_due_dates returns a map whose keys are exactly
\* the keys of its input, each mapped to what set_due_date returns for that
\* entry, and every entry whose Task exists has its due date stored whatever
\* happens to the other entries.
C25_BulkSet ==
  \A task_due_map \in TaskDueMaps, oks \in BulkOutcomes :
    LET b == bulk_set_due_dates(Cur, task_due_map, oks)
    IN /\ DOMAIN b.results = Keys(task_due_map)
       /\ \A i \in 1 .. Len(task_due_map) :
            LET e == task_due_map[i]
            IN /\ b.results[e.task_id]
                    = set_due_date(Cur, e.task_id, e.due_date, oks[i]).ret
               /\ e.task_id # NoTask => b.S.du[e.task_id] = e.due_date

\* A bulk call with a failing entry (no such Task) has stored the due date
\* of the entry that came after it
C25_Witness ==
  /\ NoTask \in DOMAIN chk.results
  /\ ~chk.results[NoTask]
  /\ chk.last # NoTask
  /\ chk.results[chk.last]
  /\ due_date[chk.last] # NoDue

\* ------------------------------------------------------ reconciliation batch
\* schedule.py overnight_batch, which works through the ReminderAgent of
\* reminder.py. The run loads every Task once (db.query(Task).all()) and
\* reads calendar_event_id and due_date from the rows as loaded; the steps it
\* calls write the Store through sessions of their own.

\* The batch runs of one behaviour
MaxRuns == 2

\* The outcomes of the remote calls made for one task: the fetch, the create
\* for the next task (all attempts), the delete of the clean-up
BatchOutcomes == [Tasks -> [get : BOOLEAN, create : BOOLEAN, del : BOOLEAN]]

\* No Work row loaded yet in the run's session
NotLoaded == ""

\* ReminderAgent.create_event_for_task line 138: task.due_date, or
\* utcnow() + 1 day
event_start(d, now) == IF d # NoDue THEN d ELSE now + Day

\* ReminderAgent.complete_task_and_schedule_next(task, work): raised is TRUE
\* when create_event raises after its retries, which leaves the task stored
\* as Completed and nothing else done. The body create_event inserts has no
\* status: the entry is created as one of a Pending task is, needsAction
agent_complete_task_and_schedule_next(S, t, okC, now) ==
  LET S1 == [S EXCEPT !.st[t] = "Completed"]
      open == {u \in Tasks : S1.st[u] # "Completed"}
  IN IF open = {}
     THEN LET c == complete_work(S1.st)
          IN [S |-> [S1 EXCEPT !.w = c.w, !.st = c.st], raised |-> FALSE]
     ELSE LET next_task == CHOOSE u \in open : \A v \in open : u <= v
              e == create_task(S1.rem, event_start(S1.du[next_task], now),
                               "Pending", okC)
          IN IF ~e.ok THEN [S |-> S1, raised |-> TRUE]
             ELSE [S |-> [S1 EXCEPT !.rem = e.rem, !.cal[next_task] = e.id,
                                    !.st[next_task] = "Tracked"],
                   raised |-> FALSE]

RECURSIVE batch_loop(_, _, _, _, _, _, _, _)
\* overnight_batch lines 29-65 from task i on. rows: the Tasks as loaded;
\* work: the status of the Work row as loaded (on the first task.work);
\* seen: the tasks whose iteration was reached; changed: the tasks queued in
\* work_changes. A remote entry that is not completed has a due value: the
\* comparison of line 55, between the aware event_due and the naive
\* task.due_date, raises TypeError, which line 64 swallows.
batch_loop(S, rows, work, oks, now, i, seen, changed) ==
  IF i > Cardinality(Tasks)
  THEN [S |-> S, work |-> work, seen |-> seen, changed |-> changed,
        raised |-> FALSE]
  ELSE IF rows.cal[i] = NoId
  THEN batch_loop(S, rows, work, oks, now, i + 1, seen, changed)
  ELSE IF ~get_task(S.rem, rows.cal[i], oks[i].get)
  THEN batch_loop(S, rows, work, oks, now, i + 1, seen \cup {i}, changed)
  ELSE IF S.rem[rows.cal[i]].status = "completed"
  THEN LET wk == IF work = NotLoaded THEN S.w ELSE work
           c == agent_complete_task_and_schedule_next(S, i, oks[i].create,
                                                       now)
       IN IF c.raised
          THEN [S |-> c.S, work |-> wk, seen |-> seen \cup {i},
                changed |-> changed, raised |-> TRUE]
          ELSE batch_loop(c.S, rows, wk, oks, now, i + 1, seen \cup {i},
                          changed \cup {i})
  ELSE batch_loop(S, rows, work, oks, now, i + 1, seen \cup {i}, changed)

\* overnight_batch(): the loop, the grouped alert (lines 68-96; no notified
\* flag is stored: db has no mark_task_notified and Task no such column), and
\* the clean-up of a Work read as Completed (lines 99-113), which deletes
\* the entries of the rows as loaded. alerted: the tasks whose completion the
\* grouped alert reports.
overnight_batch(S, oks, now) ==
  LET l == batch_loop(S, S, NotLoaded, oks, now, 1, {}, {})
      wk == IF l.work = NotLoaded THEN l.S.w ELSE l.work
      gone == {S.cal[t] : t \in {u \in Tasks : S.cal[u] # NoId /\ oks[u].del}}
      rem == IF wk = "Completed"
             THEN [id \in DOMAIN l.S.rem |->
                     IF id \in gone THEN NoEntry ELSE l.S.rem[id]]
             ELSE l.S.rem
  IN IF l.raised
     THEN [S |-> l.S, seen |-> l.seen, alerted |-> {}, raised |-> TRUE,
           work_completed |-> FALSE]
     ELSE [S |-> [l.S EXCEPT !.rem = rem], seen |-> l.seen,
           alerted |-> l.changed, raised |-> FALSE,
           work_completed |-> wk = "Completed"]

\* Before the first run (phase "setup", n operations done) and after a run:
\* the tasks that had a mirror id when it started, those it reached, those
\* whose completion it reported, whether create_event raised, whether every
\* remote call succeeded
NoBatch ==
  [phase |-> "setup", n |-> 0, runs |-> 0, mirrored |-> {}, seen |-> {},
   alerted |-> {}, raised |-> FALSE, clean |-> FALSE]

\* Every remote call of the run succeeds
AllOk == [t \in Tasks |-> [get |-> TRUE, create |-> TRUE, del |-> TRUE]]

SetupSchedule(t, now) ==
  Setup(ensure_task_scheduled(Cur, t, TRUE, TRUE, now).S)

OvernightBatch(oks, now) ==
  /\ chk.runs < MaxRuns
  /\ LET b == overnight_batch(Cur, oks, now)
     IN /\ Becomes(b.S)
        /\ chk' = [chk EXCEPT !.phase = "ran", !.runs = @ + 1,
                              !.mirrored = {t \in Tasks : Mirrored(t)},
                              !.seen = b.seen, !.alerted = b.alerted,
                              !.raised = b.raised, !.clean = oks = AllOk]
  /\ UNCHANGED edits

SpecBatch ==
  /\ InitWith({NoBatch})
  /\ [][\/ \E t \in Tasks, now \in Nows : SetupSchedule(t, now)
        \/ \E t \in Tasks, d \in NewDues : SetupReschedule(t, d)
        \/ \E id \in 1 .. MaxSetup : SetupRemoteComplete(id)
        \/ \E oks \in BatchOutcomes, now \in Nows :
             OvernightBatch(oks, now)]_vars

\* C26: after a run of the batch, every Task that had a mirror id when the
\* run started was reached by the run.
C26_EveryMirroredProcessed ==
  chk.phase = "ran" => chk.mirrored \subseteq chk.seen

\* C27: a second run of the batch right after a run whose remote calls all
\* succeeded, the remote entries unchanged, changes no Task or Work field,
\* creates no remote entry, and reports no completion that the first run
\* reported.
C27_SecondRunIdle ==
  (chk.phase = "ran" /\ chk.clean)
  => \A oks \in BatchOutcomes, now \in Nows :
       LET b == overnight_batch(Cur, oks, now)
       IN /\ b.S.w = workStatus
          /\ b.S.st = status
          /\ b.S.du = due_date
          /\ b.S.cal = calendar_event_id
          /\ b.S.snz = snooze_count
          /\ Len(b.S.rem) = Len(remote)
          /\ b.alerted \cap chk.alerted = {}

\* ------------------------------------------------- normalising a due date

\* A mutation of normalize_due_date: a due date exactly one day in the past
\* is moved too
normalize_due_date_inclusive(due, now) ==
  IF due <= now - Day THEN now + Day ELSE due

\* core/due_dates.py DueDateManager.normalize_due_date(due), now: utcnow()
normalize_due_date(due, now) ==
  IF due < now - Day THEN now + Day ELSE due

\* The clock readings tried
NormalizeNows == {2 * Day, 2 * Day + 1, 3 * Day + Hour}

\* The due dates tried: around one day before each reading, and later
NormalizeDues ==
  {now - Day + d : now \in NormalizeNows,
                   d \in {0 - Day, 0 - Hour, -1, 0, 1, Day, 2 * Day}}

\* calls: how many times normalize_due_date was applied; res: what the last
\* call returned; first: what the first call returned

NormalizeDueDate ==
  /\ chk.calls = 0
  /\ LET res == normalize_due_date(chk.due, chk.now)
     IN chk' = [chk EXCEPT !.calls = 1, !.first = res, !.res = res]
  /\ UNCHANGED <<store, remote, edits>>

\* The value returned is normalised again at the same clock reading
NormalizeAgain ==
  /\ chk.calls = 1
  /\ chk' = [chk EXCEPT !.calls = 2,
                        !.res = normalize_due_date(chk.first, chk.now)]
  /\ UNCHANGED <<store, remote, edits>>

SpecNormalize ==
  /\ InitWith([due : NormalizeDues, now : NormalizeNows, calls : {0},
               first : {NoDue}, res : {NoDue}])
  /\ [][NormalizeDueDate \/ NormalizeAgain]_vars

LowerCase ==
  <<"a", "b", "c", "d", "e", "f", "g", "h", "i", "j", "k", "l", "m",
    "n", "o", "p", "q", "r", "s", "t", "u", "v", "w", "x", "y", "z">>

UpperCase ==
  <<"A", "B", "C", "D", "E", "F", "G", "H", "I", "J", "K", "L", "M",
    "N", "O", "P", "Q", "R", "S", "T", "U", "V", "W", "X", "Y", "Z">>

Whitespace == {" ", "\t", "\n"}

\* str.lower, one character
lower_char(c) ==
  IF \E i \in 1 .. Len(UpperCase) : UpperCase[i] = c
  THEN LowerCase[CHOOSE i \in 1 .. Len(UpperCase) : UpperCase[i] = c]
  ELSE c

\* str.lower
lower(s) == [i \in 1 .. Len(s) |-> lower_char(s[i])]

\* str.upper, one character
upper_char(c) ==
  IF \E i \in 1 .. Len(LowerCase) : LowerCase[i] = c
  THEN UpperCase[CHOOSE i \in 1 .. Len(LowerCase) : LowerCase[i] = c]
  ELSE c

RECURSIVE strip(_)
\* str.strip: leading and trailing whitespace removed
strip(s) ==
  IF s = <<>> THEN s
  ELSE IF Head(s) \in Whitespace THEN strip(Tail(s))
  ELSE IF s[Len(s)] \in Whitespace THEN strip(SubSeq(s, 1, Len(s) - 1))
  ELSE s

\* The texts of the mappings, none, and two that are in no mapping
Word ==
  [pending |-> <<"p", "e", "n", "d", "i", "n", "g">>,
   draft |-> <<"d", "r", "a", "f", "t">>,
   published |-> <<"p", "u", "b", "l", "i", "s", "h", "e", "d">>,
   tracked |-> <<"t", "r", "a", "c", "k", "e", "d">>,
   completed |-> <<"c", "o", "m", "p", "l", "e", "t", "e", "d">>,
   done |-> <<"d", "o", "n", "e">>,
   needsaction |-> <<"n", "e", "e", "d", "s", "a", "c", "t", "i", "o", "n">>,
   needs_action |->
     <<"n", "e", "e", "d", "s", "_", "a", "c", "t", "i", "o", "n">>,
   empty |-> <<>>,
   bogus |-> <<"b", "o", "g", "u", "s">>,
   do_ne |-> <<"d", "o", " ", "n", "e">>]

\* A mutation of TaskStatus_from_string: the value is looked up as given,
\* in lower case
TaskStatus_from_string_unstripped(value) ==
  IF value = <<>> THEN "Pending"
  ELSE LET normalized == lower(value)
       IN CASE normalized \in {Word.pending, Word.draft} -> "Pending"
            [] normalized = Word.published -> "Published"
            [] normalized = Word.tracked -> "Tracked"
            [] normalized \in {Word.completed, Word.done} -> "Completed"
            [] normalized \in {Word.needsaction, Word.needs_action} ->
                 "Published"
            [] OTHER -> "Pending"

\* core/task.py TaskStatus.from_string(value)
TaskStatus_from_string(value) ==
  IF value = <<>> THEN "Pending"
  ELSE LET normalized == lower(strip(value))
       IN CASE normalized \in {Word.pending, Word.draft} -> "Pending"
            [] normalized = Word.published -> "Published"
            [] normalized = Word.tracked -> "Tracked"
            [] normalized \in {Word.completed, Word.done} -> "Completed"
            [] normalized \in {Word.needsaction, Word.needs_action} ->
                 "Published"
            [] OTHER -> "Pending"

\* core/work.py WorkStatus.from_string(value)
WorkStatus_from_string(value) ==
  IF value = <<>> THEN "Draft"
  ELSE LET normalized == lower(strip(value))
       IN CASE normalized = Word.draft -> "Draft"
            [] normalized = Word.published -> "Published"
            [] normalized \in {Word.completed, Word.done} -> "Completed"
            [] OTHER -> "Draft"

\* The word written in the case given
Cased(word, case) ==
  [i \in 1 .. Len(word) |->
     IF case = "upper" \/ (case = "title" /\ i = 1) THEN upper_char(word[i])
     ELSE word[i]]

TaskFromString ==
  /\ chk.parsed = ""
  /\ chk' = [chk EXCEPT !.parsed = "task",
                        !.res = TaskStatus_from_string(chk.value)]
  /\ UNCHANGED <<store, remote, edits>>

WorkFromString ==
  /\ chk.parsed = ""
  /\ chk' = [chk EXCEPT !.parsed = "work",
                        !.res = WorkStatus_from_string(chk.value)]
  /\ UNCHANGED <<store, remote, edits>>

\* The texts tried: each word as written, in capitals and capitalised, bare
\* and with whitespace around it. word, case, left, right: how the text
\* value was written; parsed: by which from_string, "" before the call
SpecParse ==
  /\ InitWith({[word |-> word, case |-> case, left |-> left,
                 right |-> right,
                 value |-> left \o Cased(word, case) \o right,
                 parsed |-> "", res |-> ""] :
                  word \in {Word[n] : n \in DOMAIN Word},
                  case \in {"lower", "upper", "title"},
                  left \in {<<>>, <<" ">>, <<"\t", " ">>},
                  right \in {<<>>, <<" ">>, <<"\t", " ">>}})
  /\ [][TaskFromString \/ WorkFromString]_vars

from_google_tasks_pending(google_status) ==
  IF google_status = "completed" THEN "Completed" ELSE "Pending"

\* core/task.py TaskStatus.from_google_tasks(google_status)
from_google_tasks(google_status) ==
  IF google_status = "completed" THEN "Completed" ELSE "Published"

\* s and r: a status and a remote value; to_remote and from_remote: what
\* to_google_tasks(s) and from_google_tasks(r) returned; back_s and back_r:
\* what converting them back returned; "" before the call

ToGoogleTasks ==
  /\ chk.to_remote = ""
  /\ chk' = [chk EXCEPT !.to_remote = to_google_tasks(chk.s)]
  /\ UNCHANGED <<store, remote, edits>>

FromGoogleTasks ==
  /\ chk.from_remote = ""
  /\ chk' = [chk EXCEPT !.from_remote = from_google_tasks(chk.r)]
  /\ UNCHANGED <<store, remote, edits>>

\* from_google_tasks(to_google_tasks(s))
FromRemoteBack ==
  /\ chk.to_remote # "" /\ chk.back_s = ""
  /\ chk' = [chk EXCEPT !.back_s = from_google_tasks(chk.to_remote)]
  /\ UNCHANGED <<store, remote, edits>>

\* to_google_tasks(from_google_tasks(r))
ToRemoteBack ==
  /\ chk.from_remote # "" /\ chk.back_r = ""
  /\ chk' = [chk EXCEPT !.back_r = to_google_tasks(chk.from_remote)]
  /\ UNCHANGED <<store, remote, edits>>

\* The remote values tried: the two of the API, none, and another text
SpecMapping ==
  /\ InitWith([s : TaskStatuses,
               r : {"needsAction", "completed", "", "hidden"},
               to_remote : {""}, from_remote : {""}, back_s : {""},
               back_r : {""}])
  /\ [][\/ ToGoogleTasks \/ FromGoogleTasks
        \/ FromRemoteBack \/ ToRemoteBack]_vars

\* C30: to_google_tasks gives completed for Completed and needsAction for
\* the other statuses; from_google_tasks gives Completed for completed and
\* Published for every other value; converting a remote value of the API to
\* a status and back returns it; converting a status to remote and back
\* returns it exactly when it is Published or Completed.
C30_RemoteMapping ==
  /\ chk.to_remote # "" =>
       chk.to_remote = IF chk.s = "Completed" THEN "completed"
                       ELSE "needsAction"
  /\ chk.from_remote # "" =>
       chk.from_remote = IF chk.r = "completed" THEN "Completed"
                         ELSE "Published"
  /\ (chk.back_r # "" /\ chk.r \in {"needsAction", "completed"}) =>
       chk.back_r = chk.r
  /\ chk.back_s # "" =>
       (chk.back_s = chk.s <=> chk.s \in {"Published", "Completed"})

\* Tracked was converted to needsAction and came back as Published
C30_Witness ==
  /\ chk.s = "Tracked"
  /\ chk.to_remote = "needsAction"
  /\ chk.back_s = "Published"

\* ------------------------------------------------- the task advanced to
\* Due dates are set on any task, mirrored or not, and tasks are completed
\* in any order; chk remembers the last completed task and the task that
\* call advanced to.

SpecNext ==
  /\ InitWith({[task |-> NoTask, next |-> NoTask]})
  /\ [][\/ \E t \in Tasks, d \in NewDues : \E okU \in Outcomes(Mirrored(t)) :
             LET r == set_due_date(Cur, t, d, okU)
             IN /\ Becomes(r.S)
                /\ chk' = [task |-> NoTask, next |-> NoTask]
                /\ UNCHANGED edits
        \/ \E t \in Tasks, okG \in BOOLEAN, okC \in BOOLEAN, now \in Nows :
             \E okU \in Outcomes(Mirrored(t)) :
               LET r == complete_task_and_schedule_next(Cur, t, okU, okG,
                                                        okC, now)
               IN /\ Len(r.S.rem) <= MaxRemote
                  /\ Becomes(r.S)
                  /\ chk' = [task |-> t, next |-> r.next]
                  /\ UNCHANGED edits]_vars

\* Task t comes before task u: no due date before any due date, then the
\* smaller due date, then the earlier creation
RanksBefore(t, u) ==
  \/ due_date[t] = NoDue /\ due_date[u] # NoDue
  \/ due_date[t] # NoDue /\ due_date[u] # NoDue /\ due_date[t] < due_date[u]
  \/ due_date[t] = due_date[u] /\ t < u

\* C31: the Task that complete(t) sets to Tracked is, among the Tasks other
\* than t that are not Completed, the one with the smallest due date, a
\* Task without a due date before every dated one and ties broken by
\* earlier creation; t itself, marked Completed in this call, is never the
\* one chosen, and no Task is chosen when no other Task is open.
C31_NextBySmallestDue ==
  \A t \in Tasks, okU \in BOOLEAN, okG \in BOOLEAN, okC \in BOOLEAN,
     now \in Nows :
    LET r == complete_task_and_schedule_next(Cur, t, okU, okG, okC, now)
        open == {u \in Tasks \ {t} : status[u] # "Completed"}
    IN /\ open = {} => r.next = NoTask
       /\ open # {} =>
            /\ r.next \in open
            /\ r.S.st[r.next] = "Tracked"
            /\ \A u \in open \ {r.next} : RanksBefore(r.next, u)

\* A complete call advanced to a dated task created after an open task of a
\* later due date, while the completed task itself had no due date.
C31_Witness ==
  /\ chk.next # NoTask
  /\ status[chk.next] = "Tracked"
  /\ due_date[chk.next] # NoDue
  /\ due_date[chk.task] = NoDue
  /\ \E u \in Tasks :
       /\ u < chk.next
       /\ status[u] # "Completed"
       /\ due_date[u] # NoDue
       /\ due_date[chk.next] < due_date[u]

\* ------------------------------------------- calls on tasks of one Work
\* Calls that run at the same time, call i on the task chk.ts[i] of the
\* Work.

\* Call i takes its next step
StepOn(i, ok, now) ==
  /\ chk.phase = "run"
  /\ chk.calls[i].pc # "done"
  /\ LET p == chk.calls[i]
         r == IF p.op = "snooze"
              THEN SnoozeStep(Cur, chk.ts[i], p, 1, ok, now)
              ELSE CompleteStep(Cur, chk.ts[i], p, ok, now)
     IN /\ Becomes(r.S)
        /\ chk' = [chk EXCEPT !.calls[i] = r.p]
  /\ UNCHANGED edits

\* One complete_task_and_schedule_next call, taken step by step, on any
\* task after some tasks were completed or rescheduled
SpecSteps ==
  /\ InitRace
  /\ [][\/ \E t \in Tasks, now \in Nows : SetupComplete(t, now)
        \/ \E t \in Tasks, d \in NewDues : SetupReschedule(t, d)
        \/ \E t \in Tasks :
             /\ chk.phase = "setup"
             /\ chk' = [phase |-> "run", ts |-> <<t>>, start |-> Cur,
                        calls |-> <<NewCall("complete")>>]
             /\ UNCHANGED <<store, remote, edits>>
        \/ \E now \in Nows :
             \E ok \in Outcomes(chk.phase = "run" /\ Remote(chk.calls[1])) :
               StepOn(1, ok, now)]_vars

\* The steps of a whole complete call, in each order the claim allows:
\* with or without a mirror to complete, with or without a next task
StepOrders ==
  {pre \o <<"task_completed", "list">> \o post :
     pre \in {<<"mark">>, <<"mark", "remote">>},
     post \in {<<"track", "ensure">>, <<"work_completed">>}}

\* Sequence a is the start of sequence b
IsPrefix(a, b) == Len(a) <= Len(b) /\ SubSeq(b, 1, Len(a)) = a

\* C32: the steps of one complete(task) call happen in the order: the Task
\* is stored Completed, the remote mirror (if the Task has one) is
\* completed, the task-completion notification is sent, the next open Task
\* is looked up, it is set to Tracked, ensure_scheduled runs on it (or, with
\* no open Task, the Work is completed); the remote completion is attempted
\* exactly when the Task had a mirror, and whether or not it fails the call
\* runs every later step, returns success and leaves the Task Completed.
C32_StepOrder ==
  chk.phase = "run" =>
    LET p == chk.calls[1]
        t == chk.ts[1]
        mirror == chk.start.cal[t]
        did(step) == \E k \in 1 .. Len(p.log) : p.log[k] = step
    IN /\ \E o \in StepOrders : IsPrefix(p.log, o)
       /\ ~did("mark") => Cur = chk.start
       /\ did("mark") => status[t] = "Completed"
       /\ did("mark") /\ ~did("remote") /\ mirror # NoId
            => p.pc = "remote" /\ remote = chk.start.rem
       /\ did("remote")
            => /\ mirror # NoId
               /\ p.okU /\ Known(remote, mirror)
                    => remote[mirror].status = "completed"
       /\ ~did("track") => \A u \in Tasks \ {t} : status[u] = chk.start.st[u]
       /\ did("track") => \E u \in Tasks \ {t} : status[u] = "Tracked"
       /\ ~did("ensure")
            => calendar_event_id = chk.start.cal
               /\ Len(remote) = Len(chk.start.rem)
       /\ p.pc = "done"
            => /\ p.log \in StepOrders
               /\ p.ret
               /\ did("remote") <=> mirror # NoId

\* A complete call on a mirrored Task has returned: its remote completion
\* failed, and it went on to notify, to set the next Task to Tracked and to
\* create that Task's mirror.
C32_Witness ==
  /\ chk.phase = "run"
  /\ chk.calls[1].pc = "done"
  /\ ~chk.calls[1].okU
  /\ chk.calls[1].ret
  /\ chk.calls[1].log =
       <<"mark", "remote", "task_completed", "list", "track", "ensure">>
  /\ status[chk.ts[1]] = "Completed"
  /\ remote[chk.start.cal[chk.ts[1]]].status = "needsAction"
  /\ \E u \in Tasks :
       /\ status[u] = "Tracked"
       /\ chk.start.cal[u] = NoId
       /\ calendar_event_id[u] # NoId

\* ------------------------------------------------ the default due date
\* ensure_task_scheduled at every hour of two days: chk.now is the current
\* time, a whole number of hours.

MaxHours == 47

SpecDefault ==
  /\ InitWith({[now |-> 0]})
  /\ [][\/ /\ chk.now < MaxHours * Hour
           /\ chk' = [now |-> chk.now + Hour]
           /\ UNCHANGED <<store, remote, edits>>
        \/ \E t \in Tasks, okC \in BOOLEAN :
             \E okG \in Outcomes(Mirrored(t)) :
               LET r == ensure_task_scheduled(Cur, t, okG, okC, chk.now)
               IN /\ Len(r.S.rem) <= MaxRemote
                  /\ Becomes(r.S)
                  /\ UNCHANGED <<edits, chk>>]_vars

\* 08:00 on the calendar day after the day of now
TomorrowEight(now) == ((now \div Day) + 1) * Day + 8 * Hour

\* C33 as stated: the remote entry that ensure_task_scheduled creates for a
\* Task without a due date is due at 08:00 on the calendar day after the
\* current day, whatever the current hour of the day.
C33_DefaultDue ==
  \A t \in Tasks :
    (due_date[t] = NoDue /\ calendar_event_id[t] = NoId)
    => LET r == ensure_task_scheduled(Cur, t, TRUE, TRUE, chk.now)
       IN r.S.rem[r.S.cal[t]].due = TomorrowEight(chk.now)

\* ------------------------------------------------- one task in progress
\* agent_api.py publish_work_flow(work_id): the Work and its tasks become
\* Published, the first task of the Work (tasks are loaded in id order)
\* becomes Tracked and is scheduled
publish_work_flow(S, okG, okC, now) ==
  LET w  == update_work_status(S.w, S.st, "Published")
      first_task == 1
      S1 == [S EXCEPT !.w = w.w,
                      !.st = [w.st EXCEPT ![first_task] = "Tracked"]]
      r  == ensure_task_scheduled(S1, first_task, okG, okC, now)
  IN Result(r.S, TRUE, first_task, r.calls, <<"work_published">>)

\* The Work is published, then its tasks are completed, rescheduled,
\* snoozed and synced in any order, with at most MaxEdits changes of a due
\* date; chk tells whether the Work has been published.
SpecTracked ==
  /\ InitWith({[published |-> FALSE]})
  /\ [][\/ \E okC \in BOOLEAN, now \in Nows :
             \E okG \in Outcomes(Mirrored(1)) :
               ApplyTwice(publish_work_flow(Cur, okG, okC, now), 0,
                          [published |-> TRUE])
        \/ \E t \in Tasks, okG \in BOOLEAN, okC \in BOOLEAN, now \in Nows :
             \E okU \in Outcomes(Mirrored(t)) :
               /\ chk.published
               /\ ApplyTwice(complete_task_and_schedule_next(Cur, t, okU, okG,
                                                             okC, now),
                             0, chk)
        \/ \E t \in Tasks, d \in NewDues : \E okU \in Outcomes(Mirrored(t)) :
             /\ chk.published
             /\ ApplyTwice(reschedule_task(Cur, t, d, okU), 1, chk)
        \/ \E t \in Tasks, days \in SnoozeDays, now \in Nows :
             \E okU \in Outcomes(Mirrored(t)) :
               /\ chk.published
               /\ ApplyTwice(snooze_task(Cur, t, days, okU, now), 1, chk)
        \/ \E t \in Tasks : \E okG \in Outcomes(Mirrored(t)) :
             /\ chk.published
             /\ ApplyTwice(sync_from_google_tasks(Cur, t, okG), 0, chk)]_vars

\* C34 as stated: after the Work was published and whatever complete,
\* reschedule, snooze and sync_from_remote operations followed, at most one
\* Task of the Work has status Tracked.
C34_OneTracked ==
  chk.published => Cardinality({t \in Tasks : status[t] = "Tracked"}) <= 1

\* Two complete_task_and_schedule_next calls run at the same time on two
\* different tasks of the Work, after some tasks were completed or
\* rescheduled
SpecPair ==
  /\ InitRace
  /\ [][\/ \E t \in Tasks, now \in Nows : SetupComplete(t, now)
        \/ \E t \in Tasks, d \in NewDues : SetupReschedule(t, d)
        \/ \E a \in Tasks, b \in Tasks :
             /\ a # b
             /\ chk.phase = "setup"
             /\ chk' = [phase |-> "run", ts |-> <<a, b>>, start |-> Cur,
                        calls |-> <<NewCall("complete"), NewCall("complete")>>]
             /\ UNCHANGED <<store, remote, edits>>
        \/ \E i \in 1 .. 2, now \in Nows :
             \E ok \in Outcomes(chk.phase = "run" /\ Remote(chk.calls[i])) :
               StepOn(i, ok, now)]_vars

\* Both calls have returned, and every remote call they made succeeded
PairDone ==
  /\ chk.phase = "run"
  /\ \A i \in 1 .. 2 :
       /\ chk.calls[i].pc = "done"
       /\ chk.calls[i].okU /\ chk.calls[i].okG /\ chk.calls[i].okC

\* C35 as stated: when complete(A) and complete(B) on two different Tasks
\* of the Work, neither Completed before, have run concurrently and both
\* have returned, A and B are both Completed: neither call's advance-next
\* step has set the other's Task back to Tracked.
C35_BothCompleted ==
  (/\ PairDone
   /\ \A i \in 1 .. 2 : chk.start.st[chk.ts[i]] # "Completed")
  => \A i \in 1 .. 2 : status[chk.ts[i]] = "Completed"

\* C36 as stated: when the two Tasks completed by two concurrent complete
\* calls were the last two Tasks of the Work not Completed, then once both
\* calls have returned the Work is Completed and the two calls together
\* have sent at most one work-completion notification.
C36_WorkCompletedOnce ==
  (/\ PairDone
   /\ {t \in Tasks : chk.start.st[t] # "Completed"}
        = {chk.ts[1], chk.ts[2]})
  => /\ workStatus = "Completed"
     /\ Count(chk.calls[1].log, "work_completed")
          + Count(chk.calls[2].log, "work_completed") <= 1

\* C37 as stated: when reschedule_task stores new_due in the Store while
\* its remote update fails, so that the mirror keeps its older due date, a
\* following sync_from_google_tasks of the Task that fetches the mirror
\* leaves the local due date at new_due.
C37_SyncKeepsNewerDue ==
  \A t \in Tasks, new_due \in NewDues :
    LET r == reschedule_task(Cur, t, new_due, FALSE)
        s == sync_from_google_tasks(r.S, t, TRUE)
    IN (/\ HasMirror(Cur, t)
        /\ remote[calendar_event_id[t]].due \notin {NoDue, new_due}
        /\ r.S.du[t] = new_due
        /\ r.S.rem = remote)
       => s.S.du[t] = new_due

\* ------------------------------------------- the remote entries of a task
\* ensure_task_scheduled and complete_task_and_schedule_next in any order;
\* chk.owner[id] is the task that remote entry id was created for.

MaxMirrors == 3

SpecMirrors ==
  /\ InitWith({[owner |-> <<>>]})
  /\ [][\/ \E t \in Tasks, okC \in BOOLEAN, now \in Nows :
             \E okG \in Outcomes(Mirrored(t)) :
               LET r == ensure_task_scheduled(Cur, t, okG, okC, now)
               IN /\ Len(r.S.rem) <= MaxMirrors
                  /\ Becomes(r.S)
                  /\ chk' = [owner |-> [id \in 1 .. Len(r.S.rem) |->
                                          IF id <= Len(remote)
                                          THEN chk.owner[id] ELSE t]]
                  /\ UNCHANGED edits
        \/ \E t \in Tasks, okG \in BOOLEAN, okC \in BOOLEAN, now \in Nows :
             \E okU \in Outcomes(Mirrored(t)) :
               LET r == complete_task_and_schedule_next(Cur, t, okU, okG,
                                                        okC, now)
               IN /\ Len(r.S.rem) <= MaxMirrors
                  /\ Becomes(r.S)
                  /\ chk' = [owner |-> [id \in 1 .. Len(r.S.rem) |->
                                          IF id <= Len(remote)
                                          THEN chk.owner[id] ELSE r.next]]
                  /\ UNCHANGED edits]_vars

\* C38 as stated: after any sequence of ensure_task_scheduled and complete
\* calls, of the remote entries created for a Task at most one exists; a
\* fetch that fails although the entry exists creates no second one.
C38_OneEntryPerTask ==
  \A t \in Tasks :
    Cardinality({id \in 1 .. Len(remote) :
                   remote[id].exists /\ chk.owner[id] = t}) <= 1

\* Two snooze_task(t, days=1) calls run at the same time on one task, after
\* some tasks were completed or rescheduled
SpecSnoozePair ==
  /\ InitRace
  /\ [][\/ \E t \in Tasks, now \in Nows : SetupComplete(t, now)
        \/ \E t \in Tasks, d \in NewDues : SetupReschedule(t, d)
        \/ \E t \in Tasks :
             /\ chk.phase = "setup"
             /\ chk' = [phase |-> "run", ts |-> <<t, t>>, start |-> Cur,
                        calls |-> <<NewCall("snooze"), NewCall("snooze")>>]
             /\ UNCHANGED <<store, remote, edits>>
        \/ \E i \in 1 .. 2, now \in Nows :
             \E ok \in Outcomes(chk.phase = "run" /\ Remote(chk.calls[i])) :
               StepOn(i, ok, now)]_vars

\* C39 as stated: when two concurrent snooze(task, days=1) calls on one
\* Task have both returned, the due date of the Task is 2 days after the
\* due date the calls started from (after the current time, when the Task
\* had none) and the snooze counter is 2 more than at the start.
C39_NoLostSnooze ==
  (PairDone /\ chk.calls[1].op = "snooze")
  => LET t == chk.ts[1]
     IN /\ \E now \in Nows :
             due_date[t] = (IF chk.start.du[t] # NoDue THEN chk.start.du[t]
                            ELSE now) + 2 * Day
        /\ snooze_count[t] = chk.start.snz[t] + 2

\* ------------------------------------------------------ session tracker
\* agents/master/session_tracker.py.  The tracker is kept in chk: the
\* session table, the clock in minutes, the cleanup thread and a shutdown
\* call with the session ids each has sampled, and, for the claims, the
\* number of feedback records per session object, the ids that got a
\* message since the cleanup sampled them, and the last session ended.

inactivity_timeout == 10
MaxClock == 12
MaxObjects == 2
MaxMessages == 3

SessionIds == 1 .. 2

NoSession ==
  [obj |-> 0, messages |-> 0, tagged |-> FALSE, last_activity |-> 0,
   completed |-> FALSE]

NoEnd == [by |-> "none", id |-> 0, touched |-> FALSE]

\* SessionTracker.__init__: no sessions, the cleanup thread started
NewTracker ==
  [sessions |-> [id \in SessionIds |-> NoSession], clock |-> 0,
   running |-> TRUE, cleanup |-> [pc |-> "loop", todo |-> {}],
   shutdown |-> [pc |-> "no", todo |-> {}], objects |-> 0,
   feedback |-> [o \in 1 .. MaxObjects |-> 0], touched |-> {},
   last |-> NoEnd]

\* ConversationSession.is_inactive(timeout_minutes)
is_inactive(s, now) == now - s.last_activity > inactivity_timeout

\* ConversationSession.is_substantial(): three messages, or a message
\* about creating work, publishing or replanning
is_substantial(s) == s.messages >= 3 \/ s.tagged

\* SessionTracker.track_message(session_id, role, content), under the
\* lock; tagged: the content names work creation, publishing or replanning
track_message(T, id, tagged) ==
  LET fresh == T.sessions[id].obj = 0
      s == IF fresh THEN [NoSession EXCEPT !.obj = T.objects + 1]
           ELSE T.sessions[id]
  IN [T EXCEPT !.objects = IF fresh THEN @ + 1 ELSE @,
               !.sessions[id] =
                 [s EXCEPT !.messages = @ + 1,
                           !.tagged = @ \/ tagged,
                           !.last_activity = T.clock],
               !.touched = IF id \in T.cleanup.todo THEN @ \cup {id} ELSE @,
               !.last = NoEnd]

\* SessionTracker.end_session(session_id, explicit), under the lock; okF:
\* record_conversation_feedback returned an id; by: who called
end_session(T, id, okF, by) ==
  LET session == T.sessions[id]
      ended == [by |-> by, id |-> id, touched |-> id \in T.touched]
      gone == [T EXCEPT !.sessions[id] = NoSession, !.last = ended]
  IN IF session.obj = 0 THEN [T EXCEPT !.last = NoEnd]
     ELSE IF session.completed THEN [T EXCEPT !.last = NoEnd]
     ELSE IF ~is_substantial(session)
     THEN gone
     ELSE IF okF THEN [gone EXCEPT !.feedback[session.obj] = @ + 1]
     ELSE gone

\* The tracker becomes T; the Store and the remote list are not touched
Tracker(T) == chk' = T /\ UNCHANGED <<store, remote, edits>>

\* The tracker under messages, explicit ends, the passing of time, the
\* cleanup thread and one shutdown, each taking the lock for one step
SpecSessions ==
  /\ InitWith({NewTracker})
  /\ [][\/ \E id \in SessionIds, tagged \in BOOLEAN :
             /\ chk.sessions[id].messages < MaxMessages
             /\ chk.sessions[id].obj # 0 \/ chk.objects < MaxObjects
             /\ Tracker(track_message(chk, id, tagged))
        \/ \E id \in SessionIds, okF \in BOOLEAN :
             Tracker(end_session(chk, id, okF, "explicit"))
        \/ /\ chk.clock + (inactivity_timeout \div 2 + 1) <= MaxClock
           /\ Tracker([chk EXCEPT
                         !.clock = @ + (inactivity_timeout \div 2 + 1),
                         !.last = NoEnd])
        \/ /\ chk.cleanup.pc = "loop"
           /\ Tracker([chk EXCEPT
                         !.cleanup.pc = IF chk.running THEN "sleep"
                                        ELSE "exited",
                         !.last = NoEnd])
        \/ /\ chk.cleanup.pc = "sleep"
           /\ Tracker([chk EXCEPT
                         !.cleanup =
                           [pc |-> "end",
                            todo |-> {id \in SessionIds :
                               /\ chk.sessions[id].obj # 0
                               /\ is_inactive(chk.sessions[id], chk.clock)
                               /\ ~chk.sessions[id].completed}],
                         !.touched = {},
                         !.last = NoEnd])
        \/ /\ chk.cleanup.pc = "end"
           /\ chk.cleanup.todo = {}
           /\ Tracker([chk EXCEPT !.cleanup.pc = "loop", !.touched = {},
                                  !.last = NoEnd])
        \/ \E id \in SessionIds, okF \in BOOLEAN :
             /\ chk.cleanup.pc = "end"
             /\ id \in chk.cleanup.todo
             /\ Tracker([end_session(chk, id, okF, "cleanup") EXCEPT
                           !.cleanup.todo = @ \ {id}])
        \/ /\ chk.shutdown.pc = "no"
           /\ Tracker([chk EXCEPT
                         !.running = FALSE,
                         !.shutdown =
                           [pc |-> "end",
                            todo |-> {id \in SessionIds :
                                        chk.sessions[id].obj # 0}],
                         !.last = NoEnd])
        \/ \E id \in SessionIds, okF \in BOOLEAN :
             /\ chk.shutdown.pc = "end"
             /\ id \in chk.shutdown.todo
             /\ Tracker([end_session(chk, id, okF, "shutdown") EXCEPT
                           !.shutdown.todo = @ \ {id}])]_vars

\* C40 as stated: in the session tracker, under any interleaving of
\* track_message, explicit end_session, the inactivity cleanup and
\* shutdown, feedback is recorded at most once for each session object, a
\* session that was ended is no longer in the session table, and the
\* cleanup does not end a session that got a new message after the cleanup
\* sampled it as inactive.
C40_SessionsEndedOnce ==
  /\ \A o \in 1 .. MaxObjects : chk.feedback[o] <= 1
  /\ chk.last.by # "none" => chk.sessions[chk.last.id].obj = 0
  /\ ~(chk.last.by = "cleanup" /\ chk.last.touched)

====
